---------------------------- MODULE Spec2Model ----------------------------
(***************************************************************************)
(* A model of the llm-secret-interceptor request/response pipeline:        *)
(* placeholder codec, detector manager, replacer, mapping store and the    *)
(* two streaming restorers.                                                *)
(*                                                                         *)
(* Text is a sequence of one-character strings.  The alphabet, the         *)
(* placeholder affixes and the detector rules are scaled down so that the  *)
(* model checker can enumerate every text up to a small length; the        *)
(* algorithms are the ones of the source.                                  *)
(***************************************************************************)
EXTENDS Integers, Sequences, FiniteSets, TLC

(***************************************************************************)
(* Bounds of the model.                                                    *)
(***************************************************************************)
\* length of the hash part of a placeholder (8 in the source)
hashLen == 1
\* longest text handed to the stream restorers
MaxStreamLen == 5
\* longest delta of one stream chunk
MaxChunk == 5
\* chunks of one stream that fail to parse
MaxUnparsable == 1
\* longest upstream body of a streamed response
MaxBodyLen == 5
\* longest text handed to Replace
MaxTextLen == 5
\* most messages of one request
MaxMessages == 2
\* most words of one message
MaxWords == 2
\* most requests one service processes
MaxRequests == 3
\* the last tick of the clock
MaxTime == 2
\* most pieces a text handed to the restorers is made of
MaxTokens == 3
\* most requests a client sends on one connection
MaxPipelined == 2
\* most writes of the goroutine of a streamed response to its pipe
MaxParts == 2
\* most handlers registered in one Registry
MaxHandlers == 3
\* most calls of GetCertificate
MaxCertCalls == 3
\* most sweeps of the ticker of one cleanupLoop
MaxSweeps == 2
\* most messages of one request with structured contents
MaxOpenAIMessages == 2
\* most bytes written to one StreamBuffer
MaxWritten == 7

(***************************************************************************)
(* Characters.                                                             *)
(***************************************************************************)
\* lower-case hex digits: the class [a-f0-9] of the placeholder pattern
HexChars == {"a", "b"}
\* the class [a-zA-Z0-9] of the pattern rules
AlnumChars == {"a", "b", "k", "S"}
\* the class [A-Za-z0-9+/=_\-] of the entropy detector's candidates
WordChars == AlnumChars \cup {"_"}
\* every character of a text; " " stands for all characters outside WordChars
Chars == WordChars \cup {" "}

\* a fixed order of the hex digits, as encoding/hex has one
HexSeq == <<"a", "b">>

\* byte value of a character (any injective numbering)
Code(c) ==
    CASE c = "a" -> 1
      [] c = "b" -> 2
      [] c = "S" -> 3
      [] c = "k" -> 4
      [] c = "_" -> 5
      [] OTHER   -> 6

(***************************************************************************)
(* State.  Each specification below runs one component; the variables of   *)
(* the components it does not run keep their initial values.               *)
(***************************************************************************)
\* internal/storage: MemoryStore
VARIABLES
    mappings,       \* MemoryStore.mappings: placeholder -> Mapping
    secretIndex,    \* MemoryStore.secretIndex: secret -> placeholder
    now             \* time.Now(), in ticks

storeVars == <<mappings, secretIndex, now>>

\* internal/proxy: StreamProcessor
VARIABLES
    sp_text,        \* the text the upstream sends, delta by delta
    sp_pos,         \* how much of sp_text has been fed to ProcessChunk
    sp_buffer,      \* StreamProcessor.buffer (a StreamBuffer)
    sp_accumulated, \* StreamProcessor.accumulated
    sp_written,     \* the events written to StreamProcessor.writer, in order
    sp_done,        \* the [DONE] chunk has been processed
    sp_unparsable   \* chunks fed so far that ParseStreamChunk rejected

streamVars == <<sp_text, sp_pos, sp_buffer, sp_accumulated, sp_written, sp_done,
                sp_unparsable>>

\* internal/proxy: the goroutine of Server.processStreamingResponse
VARIABLES
    ps_body,        \* the bytes of the upstream response body
    ps_pos,         \* how many of them the bufio.Reader has handed out
    ps_buffer,      \* the local read-ahead buffer
    ps_written,     \* the byte slices written to the pipe, in order
    ps_state        \* "reading", or how the goroutine returned: "eof", "error"

proxyStreamVars == <<ps_body, ps_pos, ps_buffer, ps_written, ps_state>>

\* internal/interceptor: one caller of the Replacer
VARIABLES
    rp_text,        \* the text handed to Replace
    rp_result,      \* the ReplaceResult it returned
    rp_restored,    \* the RestoreResult of RestoreWithMappings on that result
    rp_state        \* "new", "replaced", "restored"

replaceVars == <<rp_text, rp_result, rp_restored, rp_state>>

\* internal/proxy: one request through Server.processRequest
VARIABLES
    sv_request,     \* msg.Messages[i].Content of the parsed request
    sv_secrets,     \* what DetectAll returned for each message
    sv_forwarded,   \* the contents of the messages of the forwarded request
    sv_state        \* "received", "forwarded", or "panic"

serverVars == <<sv_request, sv_secrets, sv_forwarded, sv_state>>

\* internal/storage: the callers of a MemoryStore
VARIABLES
    st_call,        \* the last call made on the store, one call at a time
    st_lastAccess,  \* per stored placeholder, when a call last stored or hit it
    st_threads      \* per goroutine, where it stands in its call and its locals

storeCallVars == <<st_call, st_lastAccess, st_threads>>

\* internal/proxy: the callers of SecretService.ProcessRequest
VARIABLES
    se_requests,    \* how many requests the service has processed, one at a time
    se_carried,     \* <<secret, placeholder>> for every secret replaced in a body
    se_last,        \* the last request processed: Size() before and after, ...
    se_conns        \* per connection, where its ProcessRequest stands

serviceVars == <<se_requests, se_carried, se_last, se_conns>>

\* internal/interceptor: one caller of Manager.DetectAll
VARIABLES
    dt_text,        \* the text handed to DetectAll
    dt_registered,  \* the names of the Manager's interceptors, as registered
    dt_on,          \* the names of the interceptors whose IsEnabled is true
    dt_secrets,     \* the slice DetectAll returned
    dt_again,       \* the slice a second DetectAll of the same text returned
    dt_state        \* "new", "detected", "again"

detectVars == <<dt_text, dt_registered, dt_on, dt_secrets, dt_again, dt_state>>

\* internal/storage: RedisStore and the Redis server behind it
VARIABLES
    rd_forward,     \* the keys <prefix>p:<placeholder>: value and time of expiry
    rd_reverse,     \* the keys <prefix>s:<secret>: value and time of expiry
    rd_now,         \* the clock of the Redis server, in ticks
    rd_call         \* the last call made on the store

redisVars == <<rd_forward, rd_reverse, rd_now, rd_call>>

\* pkg/placeholder: one caller of a Generator built with NewGenerator
VARIABLES
    pg_generator,   \* the Generator: prefix, suffix, hashLen, maxLength
    pg_secret,      \* the secret handed to Generate
    pg_generated,   \* what the calls of Generate(secret) returned, in order
    pg_found        \* what FindAll returned for the last of them

generatorVars == <<pg_generator, pg_secret, pg_generated, pg_found>>

\* internal/interceptor, pkg/placeholder: one caller of the two restorers
VARIABLES
    rs_text,        \* the text handed to Restore and to RestorePlaceholders
    rs_table,       \* the lookup function: the placeholders that hit, with their secrets
    rs_once,        \* the RestoreResult of Replacer.Restore(text, lookup)
    rs_plain,       \* the string Generator.RestorePlaceholders(text, lookup) returned
    rs_twice,       \* the RestoreResult of Restore on rs_once.Text, same lookup
    rs_plainTwice,  \* RestorePlaceholders on rs_plain, same lookup
    rs_state        \* "new", "restored", "again"

restoreVars == <<rs_text, rs_table, rs_once, rs_plain, rs_twice, rs_plainTwice, rs_state>>

\* internal/protocol, internal/proxy: the two look-behind buffers of a stream
VARIABLES
    bf_stream,      \* StreamBuffer.buffer of a StreamProcessor
    bf_streamPc,    \* "flushed", "written" before Flush, "done" after the done marker
    bf_local,       \* the buffer of the goroutine of processStreamingResponse
    bf_localPc      \* where its loop stands: "cut", or "appended" before the cut

bufferVars == <<bf_stream, bf_streamPc, bf_local, bf_localPc>>

\* internal/proxy: one intercepted TLS connection in Server.handleTLSConnection
VARIABLES
    tl_requests,    \* the requests the client sends on the connection, in order
    tl_k,           \* how many of them http.ReadRequest has returned
    tl_pc,          \* "handshake", "read", "process", "upstream", "streaming", ...
    tl_last,        \* what processRequest did with the last request it was given
    tl_pipe,        \* the io.Pipe of a streamed response and the goroutine behind it
    tl_log          \* reads from and writes to the client, in order

tlsVars == <<tl_requests, tl_k, tl_pc, tl_last, tl_pipe, tl_log>>

\* internal/protocol: a Registry and its callers
VARIABLES
    rg_handlers,    \* Registry.handlers, in the order of the slice
    rg_sorted,      \* Registry.sorted
    rg_last         \* the last Detect call: the request, the handlers, the result

registryVars == <<rg_handlers, rg_sorted, rg_last>>

\* internal/proxy: the goroutines calling CertManager.GetCertificate
VARIABLES
    cm_cache,       \* CertManager.cache: hostname -> *tls.Certificate
    cm_threads,     \* per goroutine, where it stands in its call and its locals
    cm_serial,      \* how many certificates generateCert has made
    cm_returned     \* <<hostname, certificate>> of every call that has returned

certVars == <<cm_cache, cm_threads, cm_serial, cm_returned>>

\* internal/storage: the life of a MemoryStore, from NewMemoryStore on
VARIABLES
    ms_channel,     \* MemoryStore.stopCleanup: "open" or "closed"
    ms_loop,        \* the goroutine of cleanupLoop: "select" or "returned"
    ms_callers,     \* per caller of Close: "ready", "returned" or "panic"
    ms_last,        \* the last call of Store, Lookup, LookupBySecret or Touch
    ms_log          \* what the goroutine of cleanupLoop did, in order

memoryVars == <<ms_channel, ms_loop, ms_callers, ms_last, ms_log>>

\* internal/proxy: Server.Start, the connections of the engine and Server.Stop
VARIABLES
    sh_listener,    \* the listener of httpServer: "open" or "closed"
    sh_conns,       \* per connection, where it stands and what it has done
    sh_stop,        \* where Server.Stop stands
    sh_store,       \* the mapping store: "open" or "closed"
    sh_log          \* what Stop and the connection tasks did, in order

shutdownVars == <<sh_listener, sh_conns, sh_stop, sh_store, sh_log>>

\* the components of the engine around the pipeline
engineVars == <<registryVars, certVars, memoryVars, shutdownVars>>

\* internal/protocol and internal/proxy: processRequest on a request whose
\* messages have structured contents
VARIABLES
    oa_request,     \* the request as received: its fields and its messages
    oa_msg,         \* the StandardMessage: the contents and the raw request
    oa_modified,    \* whether a finding was replaced in some message
    oa_out,         \* the request that is forwarded
    oa_pc           \* "new", "parsed", "processed", "serialized", "forwarded"

openaiVars == <<oa_request, oa_msg, oa_modified, oa_out, oa_pc>>

\* internal/proxy: Server.processResponse on one upstream response
VARIABLES
    jr_response,    \* the response of the upstream
    jr_result,      \* what processResponse returned
    jr_pc           \* "new", "returned"

responseVars == <<jr_response, jr_result, jr_pc>>

\* internal/protocol: the connection tasks that call Registry.Detect
VARIABLES
    rt_handlers,    \* Registry.handlers
    rt_sorted,      \* Registry.sorted
    rt_tasks        \* per task, where its Detect stands

raceVars == <<rt_handlers, rt_sorted, rt_tasks>>

\* internal/protocol: one StreamBuffer and the history of its calls
VARIABLES
    sb_buffer,      \* StreamBuffer.buffer
    sb_written,     \* the data of the Write calls so far, in order
    sb_returned,    \* what Flush and FlushAll have returned so far, in order
    sb_last         \* the last call: its name, the buffer before it, its result

bytesVars == <<sb_buffer, sb_written, sb_returned, sb_last>>

\* the components of the handler sections
codecVars == <<openaiVars, responseVars, raceVars, bytesVars>>

\* the components of the later sections
laterVars == <<detectVars, redisVars, generatorVars, restoreVars, bufferVars,
              tlsVars, engineVars, codecVars>>

vars == <<storeVars, streamVars, proxyStreamVars, replaceVars, serverVars, storeCallVars,
          serviceVars, laterVars>>

\* what the actions of each component leave alone
streamOthers == <<proxyStreamVars, replaceVars, serverVars, storeCallVars, serviceVars, laterVars>>
proxyStreamOthers == <<streamVars, replaceVars, serverVars, storeCallVars, serviceVars, laterVars>>
replaceOthers == <<storeVars, streamVars, proxyStreamVars, serverVars, storeCallVars, serviceVars, laterVars>>
serverOthers == <<streamVars, proxyStreamVars, replaceVars, storeCallVars, serviceVars, laterVars>>
storeOthers == <<streamVars, proxyStreamVars, replaceVars, serverVars, serviceVars,
                laterVars>>
serviceOthers == <<streamVars, proxyStreamVars, replaceVars, serverVars, laterVars>>
earlierVars == <<storeVars, streamVars, proxyStreamVars, replaceVars, serverVars,
                 storeCallVars, serviceVars>>
detectOthers ==
    <<earlierVars, redisVars, generatorVars, restoreVars, bufferVars, tlsVars,
      engineVars, codecVars>>
redisOthers ==
    <<earlierVars, detectVars, generatorVars, restoreVars, bufferVars, tlsVars,
      engineVars, codecVars>>
generatorOthers ==
    <<earlierVars, detectVars, redisVars, restoreVars, bufferVars, tlsVars,
      engineVars, codecVars>>
restoreOthers ==
    <<earlierVars, detectVars, redisVars, generatorVars, bufferVars, tlsVars,
      engineVars, codecVars>>
bufferOthers ==
    <<earlierVars, detectVars, redisVars, generatorVars, restoreVars, tlsVars,
      engineVars, codecVars>>
tlsOthers == <<streamVars, proxyStreamVars, replaceVars, serverVars, storeCallVars,
              serviceVars, detectVars, redisVars, generatorVars, restoreVars, bufferVars,
              engineVars, codecVars>>
pipelineVars == <<detectVars, redisVars, generatorVars, restoreVars, bufferVars, tlsVars>>
registryOthers ==
    <<earlierVars, pipelineVars, certVars, memoryVars, shutdownVars, codecVars>>
certOthers ==
    <<earlierVars, pipelineVars, registryVars, memoryVars, shutdownVars, codecVars>>
memoryOthers == <<streamVars, proxyStreamVars, replaceVars, serverVars, storeCallVars,
                 serviceVars, pipelineVars, registryVars, certVars, shutdownVars,
                 codecVars>>
shutdownOthers ==
    <<earlierVars, pipelineVars, registryVars, certVars, memoryVars, codecVars>>
openaiOthers == <<streamVars, proxyStreamVars, replaceVars, serverVars, storeCallVars,
                 serviceVars, pipelineVars, engineVars, responseVars, raceVars,
                 bytesVars>>
responseOthers == <<streamVars, proxyStreamVars, replaceVars, serverVars, storeCallVars,
                   serviceVars, pipelineVars, engineVars, openaiVars, raceVars,
                   bytesVars>>
raceOthers ==
    <<earlierVars, pipelineVars, engineVars, openaiVars, responseVars, bytesVars>>
bytesOthers ==
    <<earlierVars, pipelineVars, engineVars, openaiVars, responseVars, raceVars>>

(***************************************************************************)
(* Sequence helpers.                                                       *)
(***************************************************************************)
\* s[from:to] of Go, with 0-based half-open offsets
Slice(s, from, to) == SubSeq(s, from + 1, to)

\* all sequences over S of length at most n
RECURSIVE SeqsUpTo(_, _)
SeqsUpTo(S, n) ==
    IF n = 0 THEN {<<>>}
    ELSE LET shorter == SeqsUpTo(S, n - 1)
         IN  shorter \cup {Append(s, c) : s \in {x \in shorter : Len(x) = n - 1}, c \in S}

RECURSIVE SumCodes(_)
SumCodes(s) == IF s = <<>> THEN 0 ELSE Code(Head(s)) + SumCodes(Tail(s))

\* the empty Go map
EmptyMap == [x \in {} |-> x]

\* m[k] = v of a Go map
MapPut(m, k, v) == [x \in DOMAIN m \cup {k} |-> IF x = k THEN v ELSE m[x]]

\* delete(m, k) of a Go map
MapDelete(m, k) == [x \in DOMAIN m \ {k} |-> m[x]]

\* strings.HasPrefix(SubSeq of s from offset i, p)
MatchAt(s, i, p) == i + Len(p) <= Len(s) /\ Slice(s, i, i + Len(p)) = p

(***************************************************************************)
(* pkg/placeholder: Generator                                              *)
(***************************************************************************)
\* default prefix "__SECRET_" and suffix "__", scaled; the suffix is a
\* prefix of the prefix here as there
prefix == <<"_", "S">>
suffix == <<"_">>

\* Generator.maxLength
maxLength == Len(prefix) + hashLen + Len(suffix)

\* hex.EncodeToString(sha256.Sum256(secret))[:hashLen]: a deterministic
\* digest of the bytes of the secret cut to hashLen hex digits.  As a cut
\* digest it is not injective.
RECURSIVE HexDigits(_, _)
HexDigits(n, k) ==
    IF k = 0 THEN <<>>
    ELSE <<HexSeq[(n % Len(HexSeq)) + 1]>> \o HexDigits(n \div Len(HexSeq), k - 1)

hashStr(secret) == HexDigits(SumCodes(secret), hashLen)

\* a Generate that salts the digest with the time of the call
GenerateSalted(secret) ==
    prefix \o HexDigits(SumCodes(secret) + (now \div 2), hashLen) \o suffix

\* Generator.Generate
Generate(secret) == prefix \o hashStr(secret) \o suffix

\* the compiled pattern  QuoteMeta(prefix) [a-f0-9]{hashLen} QuoteMeta(suffix)
\* matched at offset i of text
PatternMatchAt(text, i) ==
    /\ i + maxLength <= Len(text)
    /\ MatchAt(text, i, prefix)
    /\ \A j \in 1..hashLen : text[i + Len(prefix) + j] \in HexChars
    /\ MatchAt(text, i + Len(prefix) + hashLen, suffix)

\* Generator.IsPlaceholder: pattern.MatchString, an unanchored search
IsPlaceholder(s) == \E i \in 0..Len(s) : PatternMatchAt(s, i)

\* Generator.FindAllIndex: leftmost, non-overlapping matches, in order
RECURSIVE FindAllIndexFrom(_, _)
FindAllIndexFrom(text, i) ==
    IF i + maxLength > Len(text) THEN <<>>
    ELSE IF PatternMatchAt(text, i)
         THEN <<<<i, i + maxLength>>>> \o FindAllIndexFrom(text, i + maxLength)
         ELSE FindAllIndexFrom(text, i + 1)

FindAllIndex(text) == FindAllIndexFrom(text, 0)

\* Generator.FindAll
FindAll(text) ==
    LET idx == FindAllIndex(text)
    IN  [n \in 1..Len(idx) |-> Slice(text, idx[n][1], idx[n][2])]


\* a RestorePlaceholders that marks the placeholders that miss
RECURSIVE RestorePlaceholdersMarking(_, _, _)
RestorePlaceholdersMarking(text, i, table) ==
    IF i >= Len(text) THEN <<>>
    ELSE IF PatternMatchAt(text, i)
         THEN LET ph == Slice(text, i, i + maxLength)
              IN  (IF ph \in DOMAIN table THEN table[ph] ELSE ph \o <<"k">>)
                  \o RestorePlaceholdersMarking(text, i + maxLength, table)
         ELSE <<text[i + 1]>> \o RestorePlaceholdersMarking(text, i + 1, table)

\* Generator.RestorePlaceholders: pattern.ReplaceAllStringFunc with a lookup
\* table (a function from the placeholders that hit to their secrets)
RECURSIVE RestorePlaceholdersFrom(_, _, _)
RestorePlaceholdersFrom(text, i, table) ==
    IF i >= Len(text) THEN <<>>
    ELSE IF PatternMatchAt(text, i)
         THEN LET ph == Slice(text, i, i + maxLength)
              IN  (IF ph \in DOMAIN table THEN table[ph] ELSE ph)
                  \o RestorePlaceholdersFrom(text, i + maxLength, table)
         ELSE <<text[i + 1]>> \o RestorePlaceholdersFrom(text, i + 1, table)

RestorePlaceholders(text, table) == RestorePlaceholdersFrom(text, 0, table)

(***************************************************************************)
(* internal/interceptor: Replacer.Restore                                  *)
(***************************************************************************)
\* a loop of Restore over the indices in ascending order
RECURSIVE RestoreLoopAscending(_, _, _, _, _)
RestoreLoopAscending(text, indices, n, table, result) ==
    IF n = 0 THEN result
    ELSE LET start == indices[Len(indices) - n + 1][1]
             end   == indices[Len(indices) - n + 1][2]
             ph    == Slice(text, start, end)
         IN  IF ph \in DOMAIN table
             THEN RestoreLoopAscending(text, indices, n - 1, table,
                     [Text |-> Slice(result.Text, 0, start) \o table[ph]
                                  \o Slice(result.Text, end, Len(result.Text)),
                      RestoredCount |-> result.RestoredCount + 1,
                      NotFoundCount |-> result.NotFoundCount])
             ELSE RestoreLoopAscending(text, indices, n - 1, table,
                     [Text |-> result.Text,
                      RestoredCount |-> result.RestoredCount,
                      NotFoundCount |-> result.NotFoundCount + 1])

\* the loop of Restore over the indices sorted by position descending:
\* n counts down over the ascending list of FindAllIndex
RECURSIVE RestoreLoop(_, _, _, _, _)
RestoreLoop(text, indices, n, table, result) ==
    IF n = 0 THEN result
    ELSE LET start == indices[n][1]
             end   == indices[n][2]
             ph    == Slice(text, start, end)
         IN  IF ph \in DOMAIN table
             THEN RestoreLoop(text, indices, n - 1, table,
                     [Text |-> Slice(result.Text, 0, start) \o table[ph]
                                  \o Slice(result.Text, end, Len(result.Text)),
                      RestoredCount |-> result.RestoredCount + 1,
                      NotFoundCount |-> result.NotFoundCount])
             ELSE RestoreLoop(text, indices, n - 1, table,
                     [Text |-> result.Text,
                      RestoredCount |-> result.RestoredCount,
                      NotFoundCount |-> result.NotFoundCount + 1])

\* Replacer.Restore
Restore(text, table) ==
    LET result == [Text |-> text, RestoredCount |-> 0, NotFoundCount |-> 0]
    IN  IF Len(FindAll(text)) = 0 THEN result
        ELSE RestoreLoop(text, FindAllIndex(text), Len(FindAllIndex(text)), table, result)

\* Replacer.RestoreWithMappings
RestoreWithMappings(text, mappings_) == Restore(text, mappings_)

(***************************************************************************)
(* internal/interceptor: PatternInterceptor                                *)
(***************************************************************************)
\* a confidence of 1.0, in thousandths
FullConfidence == 1000

\* two of the default rules, scaled: github_token  ghp_[a-zA-Z0-9]{36}  is a
\* literal and a counted class, aws_secret_key  [0-9a-zA-Z/+]{40}  a counted
\* class alone, of lower confidence
PatternRules ==
    << [Name |-> "github_token", Lit |-> <<"k">>, Class |-> AlnumChars, Count |-> 1,
        Type |-> "token", Confidence |-> FullConfidence],
       [Name |-> "aws_secret_key", Lit |-> <<>>, Class |-> AlnumChars, Count |-> 3,
        Type |-> "api_key", Confidence |-> 700] >>

\* the length of every match of a rule
RuleLen(rule) == Len(rule.Lit) + rule.Count

\* rule.Pattern matches at offset i of text
RuleMatchAt(rule, text, i) ==
    /\ i + RuleLen(rule) <= Len(text)
    /\ MatchAt(text, i, rule.Lit)
    /\ \A j \in 1..rule.Count : text[i + Len(rule.Lit) + j] \in rule.Class

\* the findings of rule.Pattern.FindAllStringIndex(text, -1) from offset i
\* on: leftmost matches that do not overlap
RECURSIVE RuleFindings(_, _, _)
RuleFindings(rule, text, i) ==
    IF i + RuleLen(rule) > Len(text) THEN <<>>
    ELSE IF RuleMatchAt(rule, text, i)
         THEN << [Value |-> Slice(text, i, i + RuleLen(rule)),
                  StartIndex |-> i, EndIndex |-> i + RuleLen(rule),
                  Type |-> rule.Type, Confidence |-> rule.Confidence,
                  Source |-> ""] >>
              \o RuleFindings(rule, text, i + RuleLen(rule))
         ELSE RuleFindings(rule, text, i + 1)

\* PatternInterceptor.Detect: the matches of each rule, rule after rule
RECURSIVE PatternDetectFrom(_, _)
PatternDetectFrom(text, r) ==
    IF r > Len(PatternRules) THEN <<>>
    ELSE RuleFindings(PatternRules[r], text, 0) \o PatternDetectFrom(text, r + 1)

PatternDetect(text) == PatternDetectFrom(text, 1)

(***************************************************************************)
(* internal/interceptor: EntropyInterceptor                                *)
(***************************************************************************)
\* 1000 * log2(n) for n = 1..10, rounded
Log2Milli == <<0, 1000, 1585, 2000, 2322, 2585, 2807, 3000, 3170, 3322>>

\* the shortest candidate: the {8,} of the candidate expression, scaled
minRun == 3
\* EntropyInterceptor.threshold, in thousandths of a bit, scaled to the
\* entropy of three different characters
threshold == 1585
\* EntropyInterceptor.minLength and maxLength, scaled
minLength == 3
entropyMaxLength == 6
\* the entropy of full confidence (6.0 in the source), scaled
entropyCeiling == 2000

\* unicode.IsUpper(c) || unicode.IsDigit(c) over the characters of the model
UpperOrDigit == {"S"}

\* where the run of candidate characters that starts at offset i ends
RECURSIVE RunEnd(_, _)
RunEnd(text, i) ==
    IF i < Len(text) /\ text[i + 1] \in WordChars THEN RunEnd(text, i + 1) ELSE i

\* how often the character c occurs in s
RECURSIVE CountChar(_, _)
CountChar(s, c) ==
    IF s = <<>> THEN 0
    ELSE (IF Head(s) = c THEN 1 ELSE 0) + CountChar(Tail(s), c)

\* the sum of f[x] over the set S
RECURSIVE SumOver(_, _)
SumOver(S, f) ==
    IF S = {} THEN 0
    ELSE LET x == CHOOSE y \in S : TRUE IN f[x] + SumOver(S \ {x}, f)

\* EntropyInterceptor.calculateEntropy, in thousandths of a bit:
\* -sum p*log2(p) = log2(len) - (sum count*log2(count)) / len
calculateEntropy(s) ==
    IF Len(s) = 0 THEN 0
    ELSE LET cs == {s[n] : n \in 1..Len(s)}
             weighted == [c \in cs |-> CountChar(s, c) * Log2Milli[CountChar(s, c)]]
         IN  (Len(s) * Log2Milli[Len(s)] - SumOver(cs, weighted)) \div Len(s)

\* EntropyInterceptor.entropyToConfidence, in thousandths
entropyToConfidence(entropy) ==
    IF entropy >= entropyCeiling THEN FullConfidence
    ELSE IF entropy >= threshold
         THEN 500 + (500 * (entropy - threshold)) \div (entropyCeiling - threshold)
         ELSE 0

\* EntropyInterceptor.isLowercaseWord
isLowercaseWord(s) == \A n \in 1..Len(s) : s[n] \notin UpperOrDigit

\* EntropyInterceptor.isLikelyNotSecret.  The keyword, path, URL, file
\* extension, base64 padding and UUID tests need characters the model's
\* alphabet does not have, and are false on every string over it.
isLikelyNotSecret(s) == isLowercaseWord(s)

\* EntropyInterceptor.Detect from offset i on
RECURSIVE EntropyDetectFrom(_, _)
EntropyDetectFrom(text, i) ==
    IF i >= Len(text) THEN <<>>
    ELSE LET end == RunEnd(text, i)
             candidate == Slice(text, i, end)
         IN  IF end - i < minRun THEN EntropyDetectFrom(text, i + 1)
             ELSE (IF \/ Len(candidate) < minLength
                      \/ Len(candidate) > entropyMaxLength
                      \/ isLikelyNotSecret(candidate)
                      \/ calculateEntropy(candidate) < threshold
                   THEN <<>>
                   ELSE << [Value |-> candidate, StartIndex |-> i, EndIndex |-> end,
                            Type |-> "high_entropy",
                            Confidence |-> entropyToConfidence(calculateEntropy(candidate)),
                            Source |-> ""] >>)
                  \o EntropyDetectFrom(text, end)

EntropyDetect(text) == EntropyDetectFrom(text, 0)

(***************************************************************************)
(* internal/interceptor: Manager                                           *)
(***************************************************************************)
\* Interceptor.Detect of the interceptor registered under a name
DetectOf(name, text) ==
    IF name = "entropy" THEN EntropyDetect(text) ELSE PatternDetect(text)

\* the first loop of DetectAll: the findings of every interceptor, in the
\* order of registration, each stamped with its source
RECURSIVE allSecrets(_, _, _)
allSecrets(interceptors, text, n) ==
    IF n > Len(interceptors) THEN <<>>
    ELSE LET secrets == DetectOf(interceptors[n], text)
         IN  [k \in 1..Len(secrets) |-> [secrets[k] EXCEPT !.Source = interceptors[n]]]
             \o allSecrets(interceptors, text, n + 1)

\* the map `seen` of deduplicateSecrets after the first n findings: per
\* value the finding of higher confidence, on a tie the earlier one
RECURSIVE seenAfter(_, _)
seenAfter(secrets, n) ==
    IF n = 0 THEN EmptyMap
    ELSE LET seen == seenAfter(secrets, n - 1)
             f    == secrets[n]
         IN  IF f.Value \in DOMAIN seen
             THEN (IF f.Confidence > seen[f.Value].Confidence
                   THEN MapPut(seen, f.Value, f) ELSE seen)
             ELSE MapPut(seen, f.Value, f)

\* the orders in which the findings of `seen` can stand after the range
\* over the map and sort.Slice by StartIndex: the map is ranged over in any
\* order and the sort is not stable, so findings of equal StartIndex stand
\* in either order
sortedByStart(seen) ==
    LET vals == DOMAIN seen
        n    == Cardinality(vals)
    IN  {[k \in 1..n |-> seen[order[k]]] :
            order \in {o \in [1..n -> vals] :
                          /\ \A i, j \in 1..n : i # j => o[i] # o[j]
                          /\ \A i, j \in 1..n :
                                i < j => seen[o[i]].StartIndex <= seen[o[j]].StartIndex}}

\* a sweep that keeps every finding
RECURSIVE sweepKeepAll(_, _, _)
sweepKeepAll(result, n, final) ==
    IF n > Len(result) THEN final
    ELSE sweepKeepAll(result, n + 1, Append(final, result[n]))

\* the overlap sweep of deduplicateSecrets over result[n..]
RECURSIVE sweep(_, _, _)
sweep(result, n, final) ==
    IF n > Len(result) THEN final
    ELSE LET current == result[n]
             last    == final[Len(final)]
         IN  IF current.StartIndex < last.EndIndex
             THEN (IF current.Confidence > last.Confidence
                   THEN sweep(result, n + 1, [final EXCEPT ![Len(final)] = current])
                   ELSE sweep(result, n + 1, final))
             ELSE sweep(result, n + 1, Append(final, current))

\* Manager.deduplicateSecrets: the slices it can return
deduplicateSecrets(secrets) ==
    IF Len(secrets) <= 1 THEN {secrets}
    ELSE {IF Len(result) <= 1 THEN result ELSE sweep(result, 2, <<result[1]>>) :
             result \in sortedByStart(seenAfter(secrets, Len(secrets)))}

\* sort.Slice of findings by StartIndex, ascending or descending, for
\* findings of different StartIndex: insertion of each into the sorted rest
RECURSIVE insertSorted(_, _, _)
insertSorted(f, sorted, ascending) ==
    IF sorted = <<>> THEN <<f>>
    ELSE IF (ascending /\ f.StartIndex < Head(sorted).StartIndex)
            \/ (~ascending /\ f.StartIndex > Head(sorted).StartIndex)
         THEN <<f>> \o sorted
         ELSE <<Head(sorted)>> \o insertSorted(f, Tail(sorted), ascending)

RECURSIVE sortSlice(_, _)
sortSlice(secrets, ascending) ==
    IF secrets = <<>> THEN <<>>
    ELSE insertSorted(Head(secrets), sortSlice(Tail(secrets), ascending), ascending)

\* Manager.DetectAll: the slices it can return
DetectAll(interceptors, text) ==
    {sortSlice(deduped, TRUE) :
        deduped \in deduplicateSecrets(allSecrets(interceptors, text, 1))}

(***************************************************************************)
(* internal/interceptor: Replacer.Replace                                  *)
(***************************************************************************)
\* the loop of Replace with the per-call table written the wrong way
\* round: secret -> placeholder
RECURSIVE ReplaceLoopSwapped(_, _, _)
ReplaceLoopSwapped(secrets, n, result) ==
    IF n > Len(secrets) THEN result
    ELSE LET secret == secrets[n]
             ph     == Generate(secret.Value)
         IN  ReplaceLoopSwapped(secrets, n + 1,
                [result EXCEPT
                    !.Mappings = MapPut(result.Mappings, secret.Value, ph),
                    !.Text = Slice(result.Text, 0, secret.StartIndex) \o ph
                                \o Slice(result.Text, secret.EndIndex, Len(result.Text))])

\* the loop of Replace over the findings sorted by StartIndex descending
RECURSIVE ReplaceLoop(_, _, _)
ReplaceLoop(secrets, n, result) ==
    IF n > Len(secrets) THEN result
    ELSE LET secret == secrets[n]
             ph     == Generate(secret.Value)
         IN  ReplaceLoop(secrets, n + 1,
                [result EXCEPT
                    !.Mappings = MapPut(result.Mappings, ph, secret.Value),
                    !.Text = Slice(result.Text, 0, secret.StartIndex) \o ph
                                \o Slice(result.Text, secret.EndIndex, Len(result.Text))])

\* Replacer.Replace for one outcome of DetectAll.  Detected shares its
\* array with the slice that is sorted in place, so it is left descending.
ReplaceWith(text, detected) ==
    IF Len(detected) = 0
    THEN [Text |-> text, Mappings |-> EmptyMap, Detected |-> <<>>]
    ELSE LET secrets == sortSlice(detected, FALSE)
         IN  ReplaceLoop(secrets, 1,
                [Text |-> text, Mappings |-> EmptyMap, Detected |-> secrets])

\* where Replace leaves the byte at offset i of its input: every one of the
\* first n findings of `detected` that ends at or before it has become a
\* placeholder
RECURSIVE NewOffset(_, _, _)
NewOffset(i, detected, n) ==
    IF n = 0 THEN i
    ELSE NewOffset(i, detected, n - 1)
         + (IF detected[n].EndIndex <= i
            THEN maxLength - (detected[n].EndIndex - detected[n].StartIndex) ELSE 0)

\* Replacer.Replace: the results it can return
Replace(interceptors, text) ==
    {ReplaceWith(text, detected) : detected \in DetectAll(interceptors, text)}

(***************************************************************************)
(* internal/storage: MemoryStore, the state and its locked sections        *)
(***************************************************************************)
\* the lookup function handed to the restorers: store.Lookup as a table of
\* the placeholders that hit
LookupTable(m) == [p \in DOMAIN m |-> m[p].Secret]

\* the writes of the Lookup calls a restorer makes: every placeholder of
\* `phs` that hits has its LastUsed set to the time t
TouchAll(m, phs, t) ==
    [p \in DOMAIN m |-> IF p \in phs THEN [m[p] EXCEPT !.LastUsed = t] ELSE m[p]]

\* the placeholders a restorer looks up in text
LookedUp(text) == {FindAll(text)[n] : n \in 1..Len(FindAll(text))}

\* a Store that leaves the reverse index as it is
StoreOpForwardOnly(st, placeholder, secret, t) ==
    [mappings |-> MapPut(st.mappings, placeholder,
                    [Secret |-> secret, Placeholder |-> placeholder,
                     LastUsed |-> t, CreatedAt |-> t]),
     secretIndex |-> st.secretIndex]

\* MemoryStore.Store at time t, on the two maps of a store st
StoreOp(st, placeholder, secret, t) ==
    [mappings |-> MapPut(st.mappings, placeholder,
                    [Secret |-> secret, Placeholder |-> placeholder,
                     LastUsed |-> t, CreatedAt |-> t]),
     secretIndex |-> MapPut(st.secretIndex, secret, placeholder)]

\* the two maps of the store, as one value
TheStore == [mappings |-> mappings, secretIndex |-> secretIndex]

\* MemoryStore.ttl, in ticks
ttl == 1

\* the test of Cleanup with the comparison off by one
ExpiredAtTtl(mapping, t) == t - mapping.LastUsed >= ttl

\* the test of Cleanup on one mapping at time t
Expired(mapping, t) == t - mapping.LastUsed > ttl

\* MemoryStore.Touch at time t
TouchOp(st, placeholder, t) ==
    IF placeholder \in DOMAIN st.mappings
    THEN [st EXCEPT !.mappings[placeholder].LastUsed = t]
    ELSE st

\* the placeholders MemoryStore.Cleanup deletes at time t
Evicted(st, t) == {p \in DOMAIN st.mappings : Expired(st.mappings[p], t)}

\* MemoryStore.Cleanup at time t: of every expired mapping the reverse
\* entry of its secret and the mapping itself are deleted
CleanupOp(st, t) ==
    LET gone == Evicted(st, t)
        secrets == {st.mappings[p].Secret : p \in gone}
    IN  [mappings |-> [p \in DOMAIN st.mappings \ gone |-> st.mappings[p]],
         secretIndex |-> [x \in DOMAIN st.secretIndex \ secrets |-> st.secretIndex[x]]]

(***************************************************************************)
(* internal/protocol: StreamBuffer                                         *)
(***************************************************************************)
\* StreamBuffer.Write
BufferWrite(buffer, data) == buffer \o data

\* a Flush that returns the safe data without taking it out of the buffer
BufferFlushKeeping(buffer) ==
    IF Len(buffer) <= maxLength
    THEN [isNil |-> TRUE, safe |-> <<>>, buffer |-> buffer]
    ELSE [isNil |-> FALSE,
          safe |-> Slice(buffer, 0, Len(buffer) - maxLength),
          buffer |-> buffer]

\* StreamBuffer.Flush: the safe data (nil when there is none) and the
\* buffer it leaves
BufferFlush(buffer) ==
    IF Len(buffer) <= maxLength
    THEN [isNil |-> TRUE, safe |-> <<>>, buffer |-> buffer]
    ELSE LET safeLen == Len(buffer) - maxLength
         IN  [isNil |-> FALSE,
              safe |-> Slice(buffer, 0, safeLen),
              buffer |-> Slice(buffer, safeLen, Len(buffer))]

\* StreamBuffer.FlushAll
BufferFlushAll(buffer) == [data |-> buffer, buffer |-> <<>>]

(***************************************************************************)
(* internal/proxy: StreamProcessor                                         *)
(***************************************************************************)
\* the characters of the streamed texts
StreamChars == {"_", "S", "a", "k"}

\* the Mapping that Store(Generate(secret), secret) creates at time t
StoredMapping(secret, t) ==
    [Secret |-> secret, Placeholder |-> Generate(secret), LastUsed |-> t, CreatedAt |-> t]

\* StreamProcessor.writeSSEEvent of a chunk serialized by SerializeStreamChunk
ChunkEvent(delta) == [kind |-> "chunk", Delta |-> delta]

\* StreamProcessor.writeSSEEvent of data passed through as received
RawEvent(data) == [kind |-> "raw", data |-> data]

\* StreamProcessor.processContent
processContent(content) == Restore(content, LookupTable(mappings)).Text

\* the store a response meets: no mapping, or the mapping a request of the
\* secret "kb" left one tick ago
RestorerStoreInit ==
    /\ now = 1
    /\ \E stored \in {{}, {<<"k", "b">>}} :
         /\ mappings = [p \in {Generate(x) : x \in stored} |->
                           StoredMapping(CHOOSE x \in stored : Generate(x) = p, 0)]
         /\ secretIndex = [x \in stored |-> Generate(x)]

\* NewStreamProcessor
StreamInit ==
    /\ sp_text \in SeqsUpTo(StreamChars, MaxStreamLen)
    /\ sp_pos = 0
    /\ sp_buffer = <<>>
    /\ sp_accumulated = <<>>
    /\ sp_written = <<>>
    /\ sp_done = FALSE
    /\ sp_unparsable = 0
    /\ RestorerStoreInit

\* ProcessChunk of a chunk that is not the done marker and carries the next
\* k characters of the text as its delta
ProcessChunkDelta ==
    \E k \in 0..MaxChunk :
       /\ ~sp_done
       /\ sp_pos + k <= Len(sp_text)
       /\ LET delta   == Slice(sp_text, sp_pos, sp_pos + k)
              written == BufferWrite(sp_buffer, delta)
              flushed == BufferFlush(written)
          IN  /\ sp_pos' = sp_pos + k
              /\ sp_accumulated' = sp_accumulated \o delta
              /\ sp_buffer' = flushed.buffer
              /\ IF flushed.isNil
                 THEN /\ sp_written' = sp_written
                      /\ mappings' = mappings
                 ELSE /\ sp_written' = Append(sp_written, ChunkEvent(processContent(flushed.safe)))
                      /\ mappings' = TouchAll(mappings, LookedUp(flushed.safe), now)
       /\ UNCHANGED <<sp_text, sp_done, sp_unparsable, secretIndex, now, streamOthers>>

\* a ProcessChunk that forwards the done marker and leaves the buffer as
\* it is
ProcessChunkDoneUnflushed ==
    /\ ~sp_done
    /\ sp_pos = Len(sp_text)
    /\ sp_written' = Append(sp_written, RawEvent("[DONE]"))
    /\ sp_done' = TRUE
    /\ UNCHANGED <<sp_text, sp_pos, sp_buffer, sp_accumulated, sp_unparsable,
                   storeVars, streamOthers>>

\* StreamProcessor.flushAll followed by the write of the done marker:
\* ProcessChunk of the [DONE] chunk, which ends the stream
ProcessChunkDone ==
    /\ ~sp_done
    /\ sp_pos = Len(sp_text)
    /\ LET remaining == BufferFlushAll(sp_buffer)
       IN  /\ sp_buffer' = remaining.buffer
           /\ IF Len(remaining.data) = 0
              THEN /\ sp_written' = Append(sp_written, RawEvent("[DONE]"))
                   /\ mappings' = mappings
              ELSE /\ sp_written' = sp_written \o
                          <<ChunkEvent(processContent(remaining.data)), RawEvent("[DONE]")>>
                   /\ mappings' = TouchAll(mappings, LookedUp(remaining.data), now)
    /\ sp_done' = TRUE
    /\ UNCHANGED <<sp_text, sp_pos, sp_accumulated, sp_unparsable, secretIndex, now, streamOthers>>

\* ProcessChunk of data ParseStreamChunk fails on: passed through as it is
ProcessChunkUnparsable ==
    /\ ~sp_done
    /\ sp_unparsable < MaxUnparsable
    /\ sp_unparsable' = sp_unparsable + 1
    /\ sp_written' = Append(sp_written, RawEvent("{"))
    /\ UNCHANGED <<sp_text, sp_pos, sp_buffer, sp_accumulated, sp_done, storeVars, streamOthers>>

StreamNext == ProcessChunkDelta \/ ProcessChunkDone \/ ProcessChunkUnparsable

\* the deltas written to the client so far, concatenated
RECURSIVE ConcatDeltas(_)
ConcatDeltas(events) ==
    IF events = <<>> THEN <<>>
    ELSE (IF Head(events).kind = "chunk" THEN Head(events).Delta ELSE <<>>)
         \o ConcatDeltas(Tail(events))

(***************************************************************************)
(* internal/proxy: Server.processStreamingResponse                         *)
(***************************************************************************)
\* the line feed
NL == "\n"

\* the characters of the upstream bodies
BodyChars == {"_", "S", "a", NL}

\* reader.ReadBytes('\n') at offset pos of body: the bytes up to and
\* including the next line feed, or the rest of the body and io.EOF
RECURSIVE LineEnd(_, _)
LineEnd(body, pos) ==
    IF pos >= Len(body) THEN Len(body)
    ELSE IF body[pos + 1] = NL THEN pos + 1 ELSE LineEnd(body, pos + 1)

ReadBytes(body, pos) ==
    LET end == LineEnd(body, pos)
    IN  [chunk |-> Slice(body, pos, end),
         eof   |-> ~(end > pos /\ body[end] = NL)]

ProxyStreamInit ==
    /\ ps_body \in SeqsUpTo(BodyChars, MaxBodyLen)
    /\ ps_pos = 0
    /\ ps_buffer = <<>>
    /\ ps_written = <<>>
    /\ ps_state = "reading"
    /\ RestorerStoreInit

\* one turn of the loop of the goroutine: read a chunk, write the restored
\* safe part of the buffer, and at io.EOF flush what is left
StreamLoop ==
    /\ ps_state = "reading"
    /\ LET rd       == ReadBytes(ps_body, ps_pos)
           appended == ps_buffer \o rd.chunk
           bufferSize == maxLength
           over     == Len(rd.chunk) > 0 /\ Len(appended) > bufferSize
           safeLen  == Len(appended) - bufferSize
           safePart == Slice(appended, 0, safeLen)
           kept     == IF over THEN Slice(appended, safeLen, Len(appended)) ELSE appended
           first    == IF over
                       THEN <<RestorePlaceholders(safePart, LookupTable(mappings))>>
                       ELSE <<>>
           touched1 == IF over THEN TouchAll(mappings, LookedUp(safePart), now) ELSE mappings
           flush    == rd.eof /\ Len(kept) > 0
       IN  /\ ps_pos' = ps_pos + Len(rd.chunk)
           /\ ps_written' = ps_written \o first \o
                 (IF flush THEN <<RestorePlaceholders(kept, LookupTable(touched1))>> ELSE <<>>)
           \* the buffer is a local of the goroutine: it dies with it
           /\ ps_buffer' = kept
           /\ mappings' = IF flush THEN TouchAll(touched1, LookedUp(kept), now) ELSE touched1
           /\ ps_state' = IF rd.eof THEN "eof" ELSE "reading"
    /\ UNCHANGED <<ps_body, secretIndex, now, proxyStreamOthers>>

\* reader.ReadBytes fails with an error other than io.EOF: the goroutine
\* logs it and returns
StreamReadError ==
    /\ ps_state = "reading"
    /\ ps_state' = "error"
    /\ UNCHANGED <<ps_body, ps_pos, ps_buffer, ps_written, storeVars, proxyStreamOthers>>

ProxyStreamNext == StreamLoop \/ StreamReadError

\* all the bytes of a sequence of byte slices
RECURSIVE ConcatAll(_)
ConcatAll(slices) ==
    IF slices = <<>> THEN <<>> ELSE Head(slices) \o ConcatAll(Tail(slices))

\* strings.Contains
Contains(s, sub) == \E i \in 0..Len(s) : MatchAt(s, i, sub)

(***************************************************************************)
(* A caller of the Replacer: Replace, then RestoreWithMappings             *)
(***************************************************************************)
\* the manager of the caller: the entropy interceptor registered first,
\* then the pattern interceptor
ReplacerInterceptors == <<"entropy", "pattern">>

\* no result yet
NoResult == [Text |-> <<>>, Mappings |-> EmptyMap, Detected |-> <<>>]
NoRestore == [Text |-> <<>>, RestoredCount |-> 0, NotFoundCount |-> 0]

ReplacerInit ==
    /\ rp_text \in SeqsUpTo(Chars, MaxTextLen)
    /\ rp_result = NoResult
    /\ rp_restored = NoRestore
    /\ rp_state = "new"

\* replacer.Replace(text)
ReplaceCall ==
    /\ rp_state = "new"
    /\ rp_result' \in Replace(ReplacerInterceptors, rp_text)
    /\ rp_state' = "replaced"
    /\ UNCHANGED <<rp_text, rp_restored, replaceOthers>>

\* replacer.RestoreWithMappings(result.Text, result.Mappings)
RestoreWithMappingsCall ==
    /\ rp_state = "replaced"
    /\ rp_restored' = RestoreWithMappings(rp_result.Text, rp_result.Mappings)
    /\ rp_state' = "restored"
    /\ UNCHANGED <<rp_text, rp_result, replaceOthers>>

ReplacerNext == ReplaceCall \/ RestoreWithMappingsCall

(***************************************************************************)
(* internal/proxy: Server.processRequest                                   *)
(***************************************************************************)
\* the manager NewServer builds: the entropy interceptor alone
ServerInterceptors == <<"entropy">>

\* the words of the messages: three secrets, one of them longer than a
\* placeholder, and a plain word
ServerWords ==
    {<<"a", "S", "k">>, <<"b", "S", "k">>, <<"a", "S", "k", "b", "S">>, <<"a", "k">>}

\* words joined by single spaces
RECURSIVE JoinWords(_)
JoinWords(ws) ==
    IF ws = <<>> THEN <<>>
    ELSE IF Len(ws) = 1 THEN ws[1]
    ELSE ws[1] \o <<" ">> \o JoinWords(Tail(ws))

\* the contents a message can have
ServerContents == {JoinWords(ws) : ws \in SeqsUpTo(ServerWords, MaxWords)}

\* replaceSecret
replaceSecret(content, secret, ph) ==
    Slice(content, 0, secret.StartIndex) \o ph
        \o Slice(content, secret.EndIndex, Len(content))

\* the slice expressions of replaceSecret are in range
replaceSecretInRange(content, secret) ==
    secret.StartIndex <= Len(content) /\ secret.EndIndex <= Len(content)

\* an inner loop that a Store error ends
RECURSIVE replaceLoopAborting(_, _, _, _, _, _)
replaceLoopAborting(content, secrets, n, st, t, failing) ==
    IF n > Len(secrets) THEN [content |-> content, store |-> st, panic |-> FALSE]
    ELSE LET secret == secrets[n]
             ph     == Generate(secret.Value)
         IN  IF secret.Value \in failing
             THEN [content |-> content, store |-> st, panic |-> FALSE]
             ELSE IF replaceSecretInRange(content, secret)
             THEN replaceLoopAborting(replaceSecret(content, secret, ph), secrets, n + 1,
                                      StoreOp(st, ph, secret.Value, t), t, failing)
             ELSE [content |-> content, store |-> StoreOp(st, ph, secret.Value, t),
                   panic |-> TRUE]

\* the inner loop of processRequest over secrets[n..], in the order
\* DetectAll returned them: Generate, Store, replaceSecret on the content
\* as it is by then.  A slice expression out of range panics.  For the
\* secrets of `failing` s.store.Store returns an error, which is logged.
RECURSIVE replaceLoop(_, _, _, _, _, _)
replaceLoop(content, secrets, n, st, t, failing) ==
    IF n > Len(secrets) THEN [content |-> content, store |-> st, panic |-> FALSE]
    ELSE LET secret == secrets[n]
             ph     == Generate(secret.Value)
             stored == IF secret.Value \in failing THEN st
                       ELSE StoreOp(st, ph, secret.Value, t)
         IN  IF replaceSecretInRange(content, secret)
             THEN replaceLoop(replaceSecret(content, secret, ph), secrets, n + 1, stored, t,
                              failing)
             ELSE [content |-> content, store |-> stored, panic |-> TRUE]

\* the outer loop of processRequest over msg.Messages[i..]
RECURSIVE messageLoop(_, _, _, _, _, _, _)
messageLoop(contents, secrets, i, out, st, t, failing) ==
    IF i > Len(contents) THEN [contents |-> out, store |-> st, panic |-> FALSE]
    ELSE IF Len(secrets[i]) = 0
         THEN messageLoop(contents, secrets, i + 1, Append(out, contents[i]), st, t, failing)
         ELSE LET r == replaceLoop(contents[i], secrets[i], 1, st, t, failing)
              IN  IF r.panic THEN [contents |-> out, store |-> r.store, panic |-> TRUE]
                  ELSE messageLoop(contents, secrets, i + 1, Append(out, r.content),
                                   r.store, t, failing)

\* what DetectAll can return for the messages of a request
DetectChoices(interceptors, contents) ==
    {secs \in [1..Len(contents) ->
                  UNION {DetectAll(interceptors, contents[i]) : i \in 1..Len(contents)}] :
        \A i \in 1..Len(contents) : secs[i] \in DetectAll(interceptors, contents[i])}

ServerInit ==
    /\ sv_request \in SeqsUpTo(ServerContents, MaxMessages) \ {<<>>}
    /\ sv_secrets = <<>>
    /\ sv_forwarded = <<>>
    /\ sv_state = "received"
    /\ mappings = EmptyMap
    /\ secretIndex = EmptyMap
    /\ now \in 0..1

\* a processRequest that forwards the replaced request and leaves the
\* writing of the mappings for later
ProcessRequestForwardUnstored ==
    /\ sv_state = "received"
    /\ \E secs \in DetectChoices(ServerInterceptors, sv_request) :
          LET r == messageLoop(sv_request, secs, 1, <<>>, TheStore, now, {})
          IN  /\ ~r.panic
              /\ sv_secrets' = secs
              /\ sv_forwarded' = r.contents
              /\ sv_state' = "forwarded"
    /\ UNCHANGED <<sv_request, mappings, secretIndex, now, serverOthers>>

\* Server.processRequest on a request the handler parses: detection and
\* replacement message by message, then the request is forwarded
ProcessRequestForward ==
    /\ sv_state = "received"
    /\ \E secs \in DetectChoices(ServerInterceptors, sv_request) :
          LET r == messageLoop(sv_request, secs, 1, <<>>, TheStore, now, {})
          IN  /\ ~r.panic
              /\ sv_secrets' = secs
              /\ sv_forwarded' = r.contents
              /\ mappings' = r.store.mappings
              /\ secretIndex' = r.store.secretIndex
              /\ sv_state' = "forwarded"
    /\ UNCHANGED <<sv_request, now, serverOthers>>

\* Server.processRequest panics in replaceSecret: nothing is forwarded
ProcessRequestPanic ==
    /\ sv_state = "received"
    /\ \E secs \in DetectChoices(ServerInterceptors, sv_request) :
          LET r == messageLoop(sv_request, secs, 1, <<>>, TheStore, now, {})
          IN  /\ r.panic
              /\ sv_secrets' = secs
              /\ mappings' = r.store.mappings
              /\ secretIndex' = r.store.secretIndex
              /\ sv_state' = "panic"
    /\ UNCHANGED <<sv_request, sv_forwarded, now, serverOthers>>

ServerNext == ProcessRequestForward \/ ProcessRequestPanic

(***************************************************************************)
(* internal/storage: calls on a MemoryStore, one at a time                 *)
(***************************************************************************)
\* the placeholders and secrets the callers pass
StorePlaceholders == {Generate(<<"k", "a">>), Generate(<<"k", "b">>)}
StoreSecrets == {<<"k", "a">>, <<"k", "b">>}

\* no call yet
NoCall == [op |-> "none", placeholder |-> <<>>, secret |-> <<>>, found |-> FALSE,
           evicted |-> {}]

\* NewMemoryStore
StoreCallsInit ==
    /\ mappings = EmptyMap
    /\ secretIndex = EmptyMap
    /\ now = 0
    /\ st_call = NoCall
    /\ st_lastAccess = EmptyMap

\* store.Store(placeholder, secret)
StoreCall ==
    \E p \in StorePlaceholders, x \in StoreSecrets :
       LET st == StoreOp(TheStore, p, x, now)
       IN  /\ mappings' = st.mappings
           /\ secretIndex' = st.secretIndex
           /\ st_lastAccess' = MapPut(st_lastAccess, p, now)
           /\ st_call' = [op |-> "Store", placeholder |-> p, secret |-> x,
                          found |-> TRUE, evicted |-> {}]
           /\ UNCHANGED <<now, st_threads, storeOthers>>

\* store.Lookup(placeholder) with no other call in between its two locked
\* sections
LookupCall ==
    \E p \in StorePlaceholders :
       /\ IF p \in DOMAIN mappings
          THEN /\ mappings' = TouchOp(TheStore, p, now).mappings
               /\ st_lastAccess' = MapPut(st_lastAccess, p, now)
               /\ st_call' = [op |-> "Lookup", placeholder |-> p,
                              secret |-> mappings[p].Secret, found |-> TRUE,
                              evicted |-> {}]
          ELSE /\ UNCHANGED <<mappings, st_lastAccess>>
               /\ st_call' = [op |-> "Lookup", placeholder |-> p, secret |-> <<>>,
                              found |-> FALSE, evicted |-> {}]
       /\ UNCHANGED <<secretIndex, now, st_threads, storeOthers>>

\* store.LookupBySecret(secret) with no other call in between its read of
\* the reverse index and its Touch
LookupBySecretCall ==
    \E x \in StoreSecrets :
       /\ IF x \in DOMAIN secretIndex
          THEN LET p == secretIndex[x]
               IN  /\ mappings' = TouchOp(TheStore, p, now).mappings
                   /\ st_lastAccess' = IF p \in DOMAIN mappings
                                       THEN MapPut(st_lastAccess, p, now)
                                       ELSE st_lastAccess
                   /\ st_call' = [op |-> "LookupBySecret", placeholder |-> p,
                                  secret |-> x, found |-> TRUE, evicted |-> {}]
          ELSE /\ UNCHANGED <<mappings, st_lastAccess>>
               /\ st_call' = [op |-> "LookupBySecret", placeholder |-> <<>>,
                              secret |-> x, found |-> FALSE, evicted |-> {}]
       /\ UNCHANGED <<secretIndex, now, st_threads, storeOthers>>

\* store.Touch(placeholder)
TouchCall ==
    \E p \in StorePlaceholders :
       /\ mappings' = TouchOp(TheStore, p, now).mappings
       /\ st_lastAccess' = IF p \in DOMAIN mappings
                           THEN MapPut(st_lastAccess, p, now) ELSE st_lastAccess
       /\ st_call' = [op |-> "Touch", placeholder |-> p, secret |-> <<>>,
                      found |-> p \in DOMAIN mappings, evicted |-> {}]
       /\ UNCHANGED <<secretIndex, now, st_threads, storeOthers>>

\* store.Cleanup(), called directly or by cleanupLoop
CleanupCall ==
    LET st == CleanupOp(TheStore, now)
    IN  /\ mappings' = st.mappings
        /\ secretIndex' = st.secretIndex
        /\ st_lastAccess' = [p \in DOMAIN st_lastAccess \ Evicted(TheStore, now) |->
                                st_lastAccess[p]]
        /\ st_call' = [op |-> "Cleanup", placeholder |-> <<>>, secret |-> <<>>,
                       found |-> FALSE, evicted |-> Evicted(TheStore, now)]
        /\ UNCHANGED <<now, st_threads, storeOthers>>

\* time passes
Tick ==
    /\ now < MaxTime
    /\ now' = now + 1
    /\ UNCHANGED <<mappings, secretIndex, storeCallVars, storeOthers>>

StoreCallsNext ==
    StoreCall \/ LookupCall \/ LookupBySecretCall \/ TouchCall \/ CleanupCall \/ Tick

(***************************************************************************)
(* internal/storage: goroutines calling a MemoryStore concurrently         *)
(***************************************************************************)
\* the goroutines of the store's callers
Threads == {1, 2}

\* a goroutine between two calls.  `attached` says that the *Mapping the
\* goroutine read is still the one in the map, `overwritten` that a Store
\* on its placeholder came in between; found, present and refreshed
\* describe its last lookup as it returned.
IdleThread == [pc |-> "idle", op |-> "none", placeholder |-> <<>>, secret |-> <<>>,
               attached |-> FALSE, overwritten |-> FALSE, found |-> FALSE,
               present |-> FALSE, refreshed |-> FALSE]

\* NewMemoryStore, and goroutines that have not called yet
StoreThreadsInit ==
    /\ mappings = EmptyMap
    /\ secretIndex = EmptyMap
    /\ now = 0
    /\ st_threads = [t \in Threads |-> IdleThread]

\* the goroutines after the mappings of `gone` left the map they were read
\* from: by a Store that put a new *Mapping there or by an eviction
Detached(threads, gone, byStore) ==
    [t \in DOMAIN threads |->
        IF threads[t].pc # "idle" /\ threads[t].placeholder \in gone
        THEN [threads[t] EXCEPT !.attached = FALSE,
                                !.overwritten = @ \/ byStore]
        ELSE threads[t]]

\* Lookup, first locked section (RLock): the read of m.mappings[placeholder]
LookupRead(t) ==
    \E p \in StorePlaceholders :
       /\ st_threads[t].pc = "idle"
       /\ st_threads' = [st_threads EXCEPT ![t] =
             IF p \in DOMAIN mappings
             THEN [IdleThread EXCEPT !.pc = "Lookup.touch", !.op = "Lookup",
                                     !.placeholder = p, !.secret = mappings[p].Secret,
                                     !.attached = TRUE]
             ELSE [IdleThread EXCEPT !.op = "Lookup"]]
       /\ UNCHANGED <<storeVars, st_call, st_lastAccess, storeOthers>>

\* Lookup, second locked section (Lock): LastUsed of the *Mapping that was
\* read is set, and the call returns found = true
LookupTouch(t) ==
    LET th == st_threads[t]
        st == IF th.attached THEN TouchOp(TheStore, th.placeholder, now) ELSE TheStore
    IN  /\ th.pc = "Lookup.touch"
        /\ mappings' = st.mappings
        /\ st_threads' = [st_threads EXCEPT ![t] =
              [IdleThread EXCEPT
                  !.op = th.op, !.overwritten = th.overwritten, !.found = TRUE,
                  !.present = th.placeholder \in DOMAIN st.mappings,
                  !.refreshed = /\ th.placeholder \in DOMAIN st.mappings
                                /\ st.mappings[th.placeholder].LastUsed = now]]
        /\ UNCHANGED <<secretIndex, now, st_call, st_lastAccess, storeOthers>>

\* LookupBySecret, the locked read (RLock) of m.secretIndex[secret]
LookupBySecretRead(t) ==
    \E x \in StoreSecrets :
       /\ st_threads[t].pc = "idle"
       /\ st_threads' = [st_threads EXCEPT ![t] =
             IF x \in DOMAIN secretIndex
             THEN [IdleThread EXCEPT !.pc = "LookupBySecret.touch",
                                     !.op = "LookupBySecret",
                                     !.placeholder = secretIndex[x], !.secret = x,
                                     !.attached = secretIndex[x] \in DOMAIN mappings]
             ELSE [IdleThread EXCEPT !.op = "LookupBySecret"]]
       /\ UNCHANGED <<storeVars, st_call, st_lastAccess, storeOthers>>

\* LookupBySecret, the Touch of the placeholder it read, and the return of
\* found = true
LookupBySecretTouch(t) ==
    LET th == st_threads[t]
        st == TouchOp(TheStore, th.placeholder, now)
    IN  /\ th.pc = "LookupBySecret.touch"
        /\ mappings' = st.mappings
        /\ st_threads' = [st_threads EXCEPT ![t] =
              [IdleThread EXCEPT
                  !.op = th.op, !.overwritten = th.overwritten, !.found = TRUE,
                  !.present = th.placeholder \in DOMAIN st.mappings,
                  !.refreshed = /\ th.placeholder \in DOMAIN st.mappings
                                /\ st.mappings[th.placeholder].LastUsed = now]]
        /\ UNCHANGED <<secretIndex, now, st_call, st_lastAccess, storeOthers>>

\* Store by a goroutine that is between two calls
StoreBy(t) ==
    \E p \in StorePlaceholders, x \in StoreSecrets :
       LET st == StoreOp(TheStore, p, x, now)
       IN  /\ st_threads[t].pc = "idle"
           /\ mappings' = st.mappings
           /\ secretIndex' = st.secretIndex
           /\ st_threads' = Detached(st_threads, {p}, TRUE)
           /\ UNCHANGED <<now, st_call, st_lastAccess, storeOthers>>

\* Touch by a goroutine that is between two calls
TouchBy(t) ==
    \E p \in StorePlaceholders :
       /\ st_threads[t].pc = "idle"
       /\ mappings' = TouchOp(TheStore, p, now).mappings
       /\ UNCHANGED <<secretIndex, now, storeCallVars, storeOthers>>

\* Cleanup by the goroutine of cleanupLoop
CleanupSweep ==
    LET st == CleanupOp(TheStore, now)
    IN  /\ mappings' = st.mappings
        /\ secretIndex' = st.secretIndex
        /\ st_threads' = Detached(st_threads, Evicted(TheStore, now), FALSE)
        /\ UNCHANGED <<now, st_call, st_lastAccess, storeOthers>>

StoreThreadsNext ==
    \/ \E t \in Threads :
          \/ LookupRead(t) \/ LookupTouch(t)
          \/ LookupBySecretRead(t) \/ LookupBySecretTouch(t)
          \/ StoreBy(t) \/ TouchBy(t)
    \/ CleanupSweep
    \/ Tick

(***************************************************************************)
(* internal/proxy: SecretService.ProcessRequest, one request at a time     *)
(***************************************************************************)
\* the manager of the service: as the Replacer's
ServiceInterceptors == ReplacerInterceptors

\* the words of the messages: the secrets kS and ka, whose placeholders
\* are the same, and the secret kk
ServiceWords == {<<"k", "S">>, <<"k", "a">>, <<"k", "k">>}

\* the contents a message can have, and the parsed bodies
ServiceContents == {JoinWords(ws) : ws \in SeqsUpTo(ServiceWords, MaxWords)}
ServiceBodies == SeqsUpTo(ServiceContents, MaxMessages) \ {<<>>}

\* replaceWithPlaceholder: the scan from offset i on
RECURSIVE replaceWithPlaceholderFrom(_, _, _, _)
replaceWithPlaceholderFrom(text, oldPh, newPh, i) ==
    IF i >= Len(text) THEN <<>>
    ELSE IF MatchAt(text, i, oldPh)
         THEN newPh \o replaceWithPlaceholderFrom(text, oldPh, newPh, i + Len(oldPh))
         ELSE <<text[i + 1]>> \o replaceWithPlaceholderFrom(text, oldPh, newPh, i + 1)

replaceWithPlaceholder(text, oldPh, newPh) ==
    replaceWithPlaceholderFrom(text, oldPh, newPh, 0)

\* all the orders a range over a map with the keys S can take
Orders(S) ==
    {o \in [1..Cardinality(S) -> S] : \A i, j \in 1..Cardinality(S) : i # j => o[i] # o[j]}

\* the loop of ProcessRequest over replaceResult.Mappings in the order
\* `order`, from its n-th entry on: LookupBySecret, and on a hit the
\* placeholder found is put into the text, on a miss the mapping is stored
RECURSIVE storeMappings(_, _, _, _, _, _)
storeMappings(mappings_, order, n, text, st, t) ==
    IF n > Len(order) THEN [text |-> text, store |-> st]
    ELSE LET ph     == order[n]
             secret == mappings_[ph]
         IN  IF secret \in DOMAIN st.secretIndex
             THEN storeMappings(mappings_, order, n + 1,
                     replaceWithPlaceholder(text, ph, st.secretIndex[secret]),
                     TouchOp(st, st.secretIndex[secret], t), t)
             ELSE storeMappings(mappings_, order, n + 1, text,
                     StoreOp(st, ph, secret, t), t)

\* <<secret, placeholder>> for each finding of a message: the placeholder
\* that stands in the text of the message where the secret stood
CarriedIn(text, detected) ==
    {<<detected[n].Value,
       Slice(text, NewOffset(detected[n].StartIndex, detected, Len(detected)),
                   NewOffset(detected[n].StartIndex, detected, Len(detected)) + maxLength)>> :
        n \in 1..Len(detected)}

\* s.replacer.Replace(message.Content), for every content of the model
ReplaceResults == [content \in ServiceContents |-> Replace(ServiceInterceptors, content)]

\* the body of the loop of ProcessRequest for one message: what it can
\* leave as the content of the message and in the store
messageOutcomes(content, st, t) ==
    UNION {
        IF DOMAIN replaceResult.Mappings = {}
        THEN {[text |-> content, store |-> st, carried |-> {}]}
        ELSE {LET r == storeMappings(replaceResult.Mappings, order, 1,
                                     replaceResult.Text, st, t)
              IN  [text |-> r.text, store |-> r.store,
                   carried |-> CarriedIn(r.text, replaceResult.Detected)] :
                 order \in Orders(DOMAIN replaceResult.Mappings)} :
        replaceResult \in ReplaceResults[content]}

\* the loop of ProcessRequest over msg.Messages[i..]: what it can leave
RECURSIVE requestOutcomes(_, _, _, _, _, _)
requestOutcomes(contents, i, out, carried, st, t) ==
    IF i > Len(contents) THEN {[contents |-> out, store |-> st, carried |-> carried]}
    ELSE UNION {requestOutcomes(contents, i + 1, Append(out, r.text),
                                carried \cup r.carried, r.store, t) :
                   r \in messageOutcomes(contents[i], st, t)}

\* the secrets that have a forward mapping in the store st
StoredSecrets(st) == {st.mappings[p].Secret : p \in DOMAIN st.mappings}

\* no request yet
NoRequest == [sizeBefore |-> 0, sizeAfter |-> 0, replaced |-> {}, storedBefore |-> {}]

\* NewSecretService on a new store
ServiceInit ==
    /\ mappings = EmptyMap
    /\ secretIndex = EmptyMap
    /\ now = 0
    /\ se_requests = 0
    /\ se_carried = {}
    /\ se_last = NoRequest

\* service.ProcessRequest(body, handler) on a body the handler parses
ProcessRequest ==
    /\ se_requests < MaxRequests
    /\ \E body \in ServiceBodies :
          \E r \in requestOutcomes(body, 1, <<>>, {}, TheStore, now) :
             /\ mappings' = r.store.mappings
             /\ secretIndex' = r.store.secretIndex
             /\ se_carried' = se_carried \cup r.carried
             /\ se_last' = [sizeBefore |-> Cardinality(DOMAIN mappings),
                            sizeAfter |-> Cardinality(DOMAIN r.store.mappings),
                            replaced |-> {c[1] : c \in r.carried},
                            storedBefore |-> StoredSecrets(TheStore)]
    /\ se_requests' = se_requests + 1
    /\ UNCHANGED <<now, se_conns, storeCallVars, serviceOthers>>

ServiceNext == ProcessRequest \/ CleanupCall \/ Tick

(***************************************************************************)
(* internal/proxy: SecretService.ProcessRequest on concurrent connections  *)
(***************************************************************************)
\* the connections that call the service concurrently
Conns == {1, 2}

\* a connection that has sent no request: the locals of its ProcessRequest,
\* and `carried` and `stored`, the <<secret, placeholder>> pairs of its body
\* and the secrets it called Store for
IdleConn == [pc |-> "idle", contents |-> <<>>, i |-> 0, out |-> <<>>, text |-> <<>>,
             mappings |-> EmptyMap, detected |-> <<>>, pending |-> {},
             placeholder |-> <<>>, existing |-> <<>>, carried |-> {}, stored |-> {}]

\* the secret both connections send, and a secret of another placeholder
ConnSecret == <<"k", "S">>
OtherSecret == <<"k", "k">>

\* the parsed bodies of the connections: each holds ConnSecret
ConnBodies ==
    {<<ConnSecret>>, <<JoinWords(<<ConnSecret, OtherSecret>>)>>, <<OtherSecret, ConnSecret>>}

\* a new store, or the store an earlier request with ConnSecret left
ConnsInit ==
    /\ now = 0
    /\ \E st \in {[mappings |-> EmptyMap, secretIndex |-> EmptyMap],
                  StoreOp([mappings |-> EmptyMap, secretIndex |-> EmptyMap],
                          Generate(ConnSecret), ConnSecret, 0)} :
          mappings = st.mappings /\ secretIndex = st.secretIndex
    /\ se_conns = [c \in Conns |-> IdleConn]

\* ProcessRequest begins: handler.ParseRequest(body)
ConnParse(c) ==
    /\ se_conns[c].pc = "idle"
    /\ \E body \in ConnBodies :
          se_conns' = [se_conns EXCEPT ![c] =
                          [IdleConn EXCEPT !.pc = "message", !.contents = body, !.i = 1]]
    /\ UNCHANGED <<storeVars, se_requests, se_carried, se_last, storeCallVars, serviceOthers>>

\* the head of the loop over msg.Messages: s.replacer.Replace(message.Content)
ConnReplace(c) ==
    LET cn == se_conns[c]
    IN  /\ cn.pc = "message"
        /\ cn.i <= Len(cn.contents)
        /\ \E replaceResult \in Replace(ServiceInterceptors, cn.contents[cn.i]) :
              se_conns' = [se_conns EXCEPT ![c] =
                 IF DOMAIN replaceResult.Mappings = {}
                 THEN [cn EXCEPT !.out = Append(@, cn.contents[cn.i]), !.i = @ + 1]
                 ELSE [cn EXCEPT !.pc = "range", !.text = replaceResult.Text,
                                 !.mappings = replaceResult.Mappings,
                                 !.detected = replaceResult.Detected,
                                 !.pending = DOMAIN replaceResult.Mappings]]
        /\ UNCHANGED <<storeVars, se_requests, se_carried, se_last, storeCallVars,
                       serviceOthers>>

\* the range over replaceResult.Mappings takes its next entry:
\* s.store.LookupBySecret(secret), the locked read of the reverse index
ConnLookupBySecret(c) ==
    LET cn == se_conns[c]
    IN  /\ cn.pc = "range"
        /\ \E ph \in cn.pending :
              se_conns' = [se_conns EXCEPT ![c] =
                 IF cn.mappings[ph] \in DOMAIN secretIndex
                 THEN [cn EXCEPT !.pc = "touch", !.placeholder = ph,
                                 !.existing = secretIndex[cn.mappings[ph]]]
                 ELSE [cn EXCEPT !.pc = "store", !.placeholder = ph]]
        /\ UNCHANGED <<storeVars, se_requests, se_carried, se_last, storeCallVars,
                       serviceOthers>>

\* LookupBySecret hit: its Touch, and the placeholder found is put in the text
ConnTouch(c) ==
    LET cn == se_conns[c]
    IN  /\ cn.pc = "touch"
        /\ mappings' = TouchOp(TheStore, cn.existing, now).mappings
        /\ se_conns' = [se_conns EXCEPT ![c] =
              [cn EXCEPT !.pc = "range",
                         !.text = replaceWithPlaceholder(@, cn.placeholder, cn.existing),
                         !.pending = @ \ {cn.placeholder},
                         !.placeholder = <<>>, !.existing = <<>>]]
        /\ UNCHANGED <<secretIndex, now, se_requests, se_carried, se_last, storeCallVars,
                       serviceOthers>>

\* LookupBySecret miss: s.store.Store(ph, secret)
ConnStore(c) ==
    LET cn == se_conns[c]
        st == StoreOp(TheStore, cn.placeholder, cn.mappings[cn.placeholder], now)
    IN  /\ cn.pc = "store"
        /\ mappings' = st.mappings
        /\ secretIndex' = st.secretIndex
        /\ se_conns' = [se_conns EXCEPT ![c] =
              [cn EXCEPT !.pc = "range",
                         !.pending = @ \ {cn.placeholder},
                         !.stored = @ \cup {cn.mappings[cn.placeholder]},
                         !.placeholder = <<>>]]
        /\ UNCHANGED <<now, se_requests, se_carried, se_last, storeCallVars, serviceOthers>>

\* the range is over: msg.Messages[i].Content = replaceResult.Text
ConnNextMessage(c) ==
    LET cn == se_conns[c]
    IN  /\ cn.pc = "range"
        /\ cn.pending = {}
        /\ se_conns' = [se_conns EXCEPT ![c] =
              [cn EXCEPT !.pc = "message", !.out = Append(@, cn.text), !.i = @ + 1,
                         !.carried = @ \cup CarriedIn(cn.text, cn.detected),
                         !.text = <<>>, !.mappings = EmptyMap, !.detected = <<>>]]
        /\ UNCHANGED <<storeVars, se_requests, se_carried, se_last, storeCallVars,
                       serviceOthers>>

\* the loop over the messages is over: handler.SerializeRequest(msg), and
\* the body is returned to be forwarded
ConnSerialize(c) ==
    LET cn == se_conns[c]
    IN  /\ cn.pc = "message"
        /\ cn.i > Len(cn.contents)
        /\ se_conns' = [se_conns EXCEPT ![c] = [cn EXCEPT !.pc = "done"]]
        /\ UNCHANGED <<storeVars, se_requests, se_carried, se_last, storeCallVars,
                       serviceOthers>>

ConnsNext ==
    \E c \in Conns :
       \/ ConnParse(c) \/ ConnReplace(c) \/ ConnLookupBySecret(c)
       \/ ConnTouch(c) \/ ConnStore(c) \/ ConnNextMessage(c) \/ ConnSerialize(c)

(***************************************************************************)
(* internal/interceptor: Manager.DetectAll on one text                     *)
(***************************************************************************)
\* the interceptors a Manager can hold, in the order of registration; an
\* interceptor that is not enabled is skipped by DetectAll
DetectRegistered == {<<"entropy", "pattern">>, <<"pattern", "entropy">>}

\* a DetectAll that does not skip the interceptors that are not enabled
EnabledOfAll(registered, enabled) == registered

\* the subsequence of the registered interceptors that IsEnabled
EnabledOf(registered, enabled) ==
    LET F[n \in 0..Len(registered)] ==
            IF n = 0 THEN <<>>
            ELSE IF registered[n] \in enabled THEN Append(F[n - 1], registered[n])
            ELSE F[n - 1]
    IN  F[Len(registered)]

DetectInit ==
    /\ dt_text \in SeqsUpTo(Chars, MaxTextLen)
    /\ dt_registered \in DetectRegistered
    /\ dt_on \in SUBSET {"entropy", "pattern"}
    /\ dt_secrets = <<>>
    /\ dt_again = <<>>
    /\ dt_state = "new"

\* Manager.DetectAll(text)
DetectAllCall ==
    /\ dt_state = "new"
    /\ dt_secrets' \in DetectAll(EnabledOf(dt_registered, dt_on), dt_text)
    /\ dt_state' = "detected"
    /\ UNCHANGED <<dt_text, dt_registered, dt_on, dt_again, detectOthers>>

\* Manager.DetectAll(text), called once more with the same text
DetectAllAgain ==
    /\ dt_state = "detected"
    /\ dt_again' \in DetectAll(EnabledOf(dt_registered, dt_on), dt_text)
    /\ dt_state' = "again"
    /\ UNCHANGED <<dt_text, dt_registered, dt_on, dt_secrets, detectOthers>>

DetectNext == DetectAllCall \/ DetectAllAgain

(***************************************************************************)
(* internal/storage: RedisStore                                            *)
(***************************************************************************)
\* RedisStore.ttl, in ticks
redisTtl == 2

\* the secrets the callers store, each under its own placeholder
RedisSecrets == {<<"k", "a">>, <<"k", "b">>}

\* a key of the server is there until its time of expiry has come
RedisLive(keys, key, t) == key \in DOMAIN keys /\ t < keys[key].expireAt

\* SET key value EX ttl
RedisSet(keys, key, value, t) ==
    MapPut(keys, key, [value |-> value, expireAt |-> t + redisTtl])

\* EXPIRE key ttl: the time of expiry of a key that is there is set anew
RedisExpire(keys, key, t) ==
    IF RedisLive(keys, key, t)
    THEN [keys EXCEPT ![key].expireAt = t + redisTtl]
    ELSE keys

NoRedisCall == [op |-> "none", placeholder |-> <<>>, secret |-> <<>>, found |-> FALSE]

RedisInit ==
    /\ rd_forward = EmptyMap
    /\ rd_reverse = EmptyMap
    /\ rd_now = 0
    /\ rd_call = NoRedisCall

\* RedisStore.Store(placeholder, secret): SET of the forward key, SET of
\* the reverse key
RedisStoreCall ==
    \E secret \in RedisSecrets :
       LET placeholder == Generate(secret)
       IN  /\ rd_forward' = RedisSet(rd_forward, placeholder, secret, rd_now)
           /\ rd_reverse' = RedisSet(rd_reverse, secret, placeholder, rd_now)
           /\ rd_call' = [op |-> "Store", placeholder |-> placeholder,
                          secret |-> secret, found |-> FALSE]
           /\ UNCHANGED <<rd_now, redisOthers>>

\* RedisStore.Lookup(placeholder): GET of the forward key and, on a hit,
\* EXPIRE of the forward key
RedisLookupCall ==
    \E secret \in RedisSecrets :
       LET placeholder == Generate(secret)
           found == RedisLive(rd_forward, placeholder, rd_now)
       IN  /\ rd_forward' = RedisExpire(rd_forward, placeholder, rd_now)
           /\ rd_call' = [op |-> "Lookup", placeholder |-> placeholder,
                          secret |-> IF found THEN rd_forward[placeholder].value
                                     ELSE <<>>,
                          found |-> found]
           /\ UNCHANGED <<rd_reverse, rd_now, redisOthers>>

\* RedisStore.LookupBySecret(secret): GET of the reverse key and, on a hit,
\* EXPIRE of the reverse key
RedisLookupBySecretCall ==
    \E secret \in RedisSecrets :
       LET found == RedisLive(rd_reverse, secret, rd_now)
       IN  /\ rd_reverse' = RedisExpire(rd_reverse, secret, rd_now)
           /\ rd_call' = [op |-> "LookupBySecret",
                          placeholder |-> IF found THEN rd_reverse[secret].value
                                          ELSE <<>>,
                          secret |-> secret, found |-> found]
           /\ UNCHANGED <<rd_forward, rd_now, redisOthers>>

\* RedisStore.Touch(placeholder): EXPIRE of the forward key
RedisTouchCall ==
    \E secret \in RedisSecrets :
       LET placeholder == Generate(secret)
       IN  /\ rd_forward' = RedisExpire(rd_forward, placeholder, rd_now)
           /\ rd_call' = [op |-> "Touch", placeholder |-> placeholder,
                          secret |-> <<>>, found |-> FALSE]
           /\ UNCHANGED <<rd_reverse, rd_now, redisOthers>>

\* time passes on the server
RedisTick ==
    /\ rd_now < MaxTime
    /\ rd_now' = rd_now + 1
    /\ UNCHANGED <<rd_forward, rd_reverse, rd_call, redisOthers>>

RedisNext ==
    \/ RedisStoreCall \/ RedisLookupCall \/ RedisLookupBySecretCall
    \/ RedisTouchCall \/ RedisTick

(***************************************************************************)
(* pkg/placeholder: a Generator of any prefix and suffix                   *)
(***************************************************************************)
\* the characters of the prefixes and suffixes: a hex digit among them
AffixChars == {"_", "S", "a"}

\* a NewGenerator that leaves the suffix out of maxLength
NewGeneratorShort(prefix_, suffix_) ==
    [prefix |-> prefix_, suffix |-> suffix_, hashLen |-> hashLen,
     maxLength |-> Len(prefix_) + hashLen]

\* NewGenerator(prefix, suffix)
NewGenerator(prefix_, suffix_) ==
    [prefix |-> prefix_, suffix |-> suffix_, hashLen |-> hashLen,
     maxLength |-> Len(prefix_) + hashLen + Len(suffix_)]

\* Generate of the generator g
GenerateOf(g, secret) == g.prefix \o HexDigits(SumCodes(secret), g.hashLen) \o g.suffix

\* the pattern of g matched at offset i of text; the length of a match is
\* that of the pattern: prefix, hashLen hex digits, suffix
PatternOf(g, text, i) ==
    /\ i + Len(g.prefix) + g.hashLen + Len(g.suffix) <= Len(text)
    /\ MatchAt(text, i, g.prefix)
    /\ \A j \in 1..g.hashLen : text[i + Len(g.prefix) + j] \in HexChars
    /\ MatchAt(text, i + Len(g.prefix) + g.hashLen, g.suffix)

\* IsPlaceholder of g
IsPlaceholderOf(g, s) == \E i \in 0..Len(s) : PatternOf(g, s, i)

\* FindAll of g: the leftmost matches that do not overlap, in order
RECURSIVE FindAllOf(_, _, _)
FindAllOf(g, text, i) ==
    LET n == Len(g.prefix) + g.hashLen + Len(g.suffix)
    IN  IF i + n > Len(text) THEN <<>>
        ELSE IF PatternOf(g, text, i)
             THEN <<Slice(text, i, i + n)>> \o FindAllOf(g, text, i + n)
             ELSE FindAllOf(g, text, i + 1)

GeneratorInit ==
    /\ \E prefix_, suffix_ \in SeqsUpTo(AffixChars, MaxWords) :
          pg_generator = NewGenerator(prefix_, suffix_)
    /\ pg_secret \in SeqsUpTo({"k", "S"}, MaxWords)
    /\ pg_generated = <<>>
    /\ pg_found = <<>>

\* g.Generate(secret), and g.FindAll of what it returned
GenerateCall ==
    /\ Len(pg_generated) < 2
    /\ pg_generated' = Append(pg_generated, GenerateOf(pg_generator, pg_secret))
    /\ pg_found' = FindAllOf(pg_generator, GenerateOf(pg_generator, pg_secret), 0)
    /\ UNCHANGED <<pg_generator, pg_secret, generatorOthers>>

GeneratorNext == GenerateCall

(***************************************************************************)
(* Replacer.Restore and Generator.RestorePlaceholders on one text          *)
(***************************************************************************)
\* the pieces of the texts: two placeholders, the head and the tail of a
\* placeholder, and other characters
RestoreTokens ==
    {Generate(<<"k", "a">>), Generate(<<"k", "b">>), <<"_", "S">>, <<"a", "_">>,
     <<"k">>, <<" ">>}

\* the pieces joined
RECURSIVE JoinTokens(_)
JoinTokens(ts) == IF ts = <<>> THEN <<>> ELSE Head(ts) \o JoinTokens(Tail(ts))

\* the texts handed to the restorers
RestoreTexts == {JoinTokens(ts) : ts \in SeqsUpTo(RestoreTokens, MaxTokens)}

\* the secrets a lookup returns: a token, the tail of a placeholder, a
\* placeholder
RestoreSecrets == {<<"k", "S">>, <<"a", "_">>, Generate(<<"k", "b">>)}

\* the lookup functions: any of the two placeholders hits or misses
RestoreTables ==
    UNION {[hits -> RestoreSecrets] :
              hits \in SUBSET {Generate(<<"k", "a">>), Generate(<<"k", "b">>)}}

RestorerInit ==
    /\ rs_text \in RestoreTexts
    /\ rs_table \in RestoreTables
    /\ rs_once = NoRestore
    /\ rs_plain = <<>>
    /\ rs_twice = NoRestore
    /\ rs_plainTwice = <<>>
    /\ rs_state = "new"

\* replacer.Restore(text, lookup) and generator.RestorePlaceholders(text, lookup)
RestoreCall ==
    /\ rs_state = "new"
    /\ rs_once' = Restore(rs_text, rs_table)
    /\ rs_plain' = RestorePlaceholders(rs_text, rs_table)
    /\ rs_state' = "restored"
    /\ UNCHANGED <<rs_text, rs_table, rs_twice, rs_plainTwice, restoreOthers>>

\* the two restorers again, each on what it returned, with the same lookup
RestoreAgainCall ==
    /\ rs_state = "restored"
    /\ rs_twice' = Restore(rs_once.Text, rs_table)
    /\ rs_plainTwice' = RestorePlaceholders(rs_plain, rs_table)
    /\ rs_state' = "again"
    /\ UNCHANGED <<rs_text, rs_table, rs_once, rs_plain, restoreOthers>>

RestorerNext == RestoreCall \/ RestoreAgainCall

(***************************************************************************)
(* The look-behind buffers of a stream, step by step                       *)
(***************************************************************************)
\* the deltas and lines of a stream: of any length up to MaxChunk; what
\* the bytes are makes no difference to the buffers
BufferData == SeqsUpTo({"a"}, MaxChunk)

BuffersInit ==
    /\ bf_stream = <<>>
    /\ bf_streamPc = "flushed"
    /\ bf_local = <<>>
    /\ bf_localPc = "cut"

\* ProcessChunk of a delta: sp.buffer.Write([]byte(chunk.Delta))
StreamBufferWrite ==
    /\ bf_streamPc = "flushed"
    /\ \E data \in BufferData : bf_stream' = BufferWrite(bf_stream, data)
    /\ bf_streamPc' = "written"
    /\ UNCHANGED <<bf_local, bf_localPc, bufferOthers>>

\* ProcessChunk of a delta goes on: sp.buffer.Flush()
StreamBufferFlush ==
    /\ bf_streamPc = "written"
    /\ bf_stream' = BufferFlush(bf_stream).buffer
    /\ bf_streamPc' = "flushed"
    /\ UNCHANGED <<bf_local, bf_localPc, bufferOthers>>

\* ProcessChunk of the done marker: sp.buffer.FlushAll()
StreamBufferFlushAll ==
    /\ bf_streamPc = "flushed"
    /\ bf_stream # <<>>
    /\ bf_stream' = BufferFlushAll(bf_stream).buffer
    /\ bf_streamPc' = "done"
    /\ UNCHANGED <<bf_local, bf_localPc, bufferOthers>>

\* the loop of processStreamingResponse: buffer = append(buffer, chunk...)
\* with the line ReadBytes returned
LocalBufferAppend ==
    /\ bf_localPc = "cut"
    /\ \E chunk \in BufferData \ {<<>>} : bf_local' = bf_local \o chunk
    /\ bf_localPc' = "appended"
    /\ UNCHANGED <<bf_stream, bf_streamPc, bufferOthers>>

\* the loop goes on: the safe part is written and buffer = buffer[safeLen:]
LocalBufferCut ==
    /\ bf_localPc = "appended"
    /\ LET bufferSize == maxLength
       IN  bf_local' = IF Len(bf_local) > bufferSize
                       THEN Slice(bf_local, Len(bf_local) - bufferSize, Len(bf_local))
                       ELSE bf_local
    /\ bf_localPc' = "cut"
    /\ UNCHANGED <<bf_stream, bf_streamPc, bufferOthers>>

BuffersNext ==
    \/ StreamBufferWrite \/ StreamBufferFlush \/ StreamBufferFlushAll
    \/ LocalBufferAppend \/ LocalBufferCut

(***************************************************************************)
(* internal/proxy: Server.handleTLSConnection on one connection            *)
(***************************************************************************)
\* OpenAIHandler.CanHandle: the Content-Type is JSON and the path is one of
\* the chat endpoints
CanHandle(req) == req.json /\ req.chat

\* Registry.Detect with the handlers NewServer registers, the OpenAI
\* handler alone: the name of the first handler that accepts, or "none"
RegistryDetect(req) == IF CanHandle(req) THEN "openai" ELSE "none"

\* the contents of a messages array: the text between the commas
RECURSIVE SplitMessages(_)
SplitMessages(inner) ==
    IF \A n \in 1..Len(inner) : inner[n] # ","
    THEN <<inner>>
    ELSE LET n == CHOOSE n \in 1..Len(inner) :
                     inner[n] = "," /\ \A m \in 1..(n - 1) : inner[m] # ","
         IN  <<Slice(inner, 0, n - 1)>> \o SplitMessages(Slice(inner, n, Len(inner)))

\* OpenAIHandler.ParseRequest: json.Unmarshal of the body.  A body is JSON
\* when it opens and closes with its braces.
ParseRequest(body) ==
    IF Len(body) >= 2 /\ body[1] = "{" /\ body[Len(body)] = "}"
    THEN [ok |-> TRUE,
          Messages |-> IF Len(body) = 2 THEN <<>>
                       ELSE SplitMessages(Slice(body, 1, Len(body) - 1))]
    ELSE [ok |-> FALSE, Messages |-> <<>>]

\* the contents of a messages array, with the commas between them
RECURSIVE JoinMessages(_)
JoinMessages(contents) ==
    IF contents = <<>> THEN <<>>
    ELSE IF Len(contents) = 1 THEN contents[1]
    ELSE contents[1] \o <<",">> \o JoinMessages(Tail(contents))

\* OpenAIHandler.SerializeRequest
SerializeRequest(contents) == <<"{">> \o JoinMessages(contents) \o <<"}">>

\* a message that is a GitHub token (ghp_ and 36 alphanumerics in the
\* source; in the model a word that begins with a match of the rule
\* github_token and is long enough for the entropy detector)
GithubTokenText == <<"k", "S", "a", "b">>

\* the bodies of the requests: JSON with one secret, with a plain word,
\* with two secrets in two messages, with two secrets in one message
\* of which the first is longer than its placeholder, and with a GitHub
\* token; text that is not JSON, and JSON cut short
TlsBodies ==
    {SerializeRequest(<<<<"a", "S", "k">>>>),
     SerializeRequest(<<<<"a", "k">>>>),
     SerializeRequest(<<<<"a", "S", "k">>, <<"b", "S", "k">>>>),
     SerializeRequest(<<<<"a", "S", "k", "b", "S", " ", "a", "S", "k">>>>),
     SerializeRequest(<<GithubTokenText>>),
     <<"a", "S", "k">>,
     <<"{", "a", "S", "k">>}

\* the requests of a client: to a chat endpoint, with a JSON Content-Type
\* or another, with a Content-Length or chunked
TlsRequests == [json : BOOLEAN, chat : {TRUE}, chunked : BOOLEAN, body : TlsBodies]

\* nothing has been given to processRequest
NoProcessed ==
    [kind |-> "none", body |-> <<>>, sent |-> <<>>, forwarded |-> FALSE,
     errorResponse |-> FALSE, roundTrip |-> "none", detectorRuns |-> 0,
     storeCalls |-> 0,
     contents |-> <<>>, secrets |-> <<>>, failing |-> {},
     storeBefore |-> [mappings |-> EmptyMap, secretIndex |-> EmptyMap],
     storeAfter |-> [mappings |-> EmptyMap, secretIndex |-> EmptyMap]]

\* no streamed response is under way
NoPipe == [left |-> 0, full |-> FALSE, closed |-> FALSE]

\* the values of the findings of a request
FoundValues(secs) ==
    UNION {{secs[i][n].Value : n \in 1..Len(secs[i])} : i \in 1..Len(secs)}

\* the number of findings of a request
RECURSIVE CountFindings(_)
CountFindings(secs) ==
    IF secs = <<>> THEN 0 ELSE Len(Head(secs)) + CountFindings(Tail(secs))

\* Server.sendErrorResponse: the response it writes to the connection
sendErrorResponse(statusCode) ==
    [StatusCode |-> statusCode, ContentType |-> "text/plain"]

TlsInit ==
    /\ tl_requests \in SeqsUpTo(TlsRequests, MaxPipelined)
    /\ tl_k = 0
    /\ tl_pc = "handshake"
    /\ tl_last = NoProcessed
    /\ tl_pipe = NoPipe
    /\ tl_log = <<>>
    /\ mappings = EmptyMap
    /\ secretIndex = EmptyMap
    /\ now = 0

\* handleConnect: the connection is hijacked, the handshake succeeds and
\* handleTLSConnection is called
TlsHandshake ==
    /\ tl_pc = "handshake"
    /\ tl_pc' = "read"
    /\ UNCHANGED <<tl_requests, tl_k, tl_last, tl_pipe, tl_log, storeVars, tlsOthers>>

\* handleConnect: tlsClientConn.Handshake() fails, the connection is closed
TlsHandshakeFails ==
    /\ tl_pc = "handshake"
    /\ tl_pc' = "closed"
    /\ UNCHANGED <<tl_requests, tl_k, tl_last, tl_pipe, tl_log, storeVars, tlsOthers>>

\* the head of the loop: http.ReadRequest(reader) returns the next request
TlsReadRequest ==
    /\ tl_pc = "read"
    /\ tl_k < Len(tl_requests)
    /\ tl_k' = tl_k + 1
    /\ tl_log' = Append(tl_log, <<"read", tl_k + 1>>)
    /\ tl_pipe' = NoPipe
    /\ tl_pc' = "process"
    /\ UNCHANGED <<tl_requests, tl_last, storeVars, tlsOthers>>

\* http.ReadRequest returns io.EOF: the client has sent all its requests
TlsReadEOF ==
    /\ tl_pc = "read"
    /\ tl_k = Len(tl_requests)
    /\ tl_pc' = "closed"
    /\ UNCHANGED <<tl_requests, tl_k, tl_last, tl_pipe, tl_log, storeVars, tlsOthers>>

\* a processRequest that forwards nothing of a request without a handler
TlsProcessNoHandlerEmpty ==
    /\ tl_pc = "process"
    /\ RegistryDetect(tl_requests[tl_k]) = "none"
    /\ tl_last' = [NoProcessed EXCEPT !.kind = "nohandler",
                      !.body = tl_requests[tl_k].body, !.sent = <<>>,
                      !.forwarded = TRUE,
                      !.storeBefore = TheStore, !.storeAfter = TheStore]
    /\ tl_pc' = "upstream"
    /\ UNCHANGED <<tl_requests, tl_k, tl_pipe, tl_log, storeVars, tlsOthers>>

\* processRequest, no handler accepts the request: RoundTrip(req) with the
\* request as it was read
TlsProcessNoHandler ==
    /\ tl_pc = "process"
    /\ RegistryDetect(tl_requests[tl_k]) = "none"
    /\ tl_last' = [NoProcessed EXCEPT !.kind = "nohandler",
                      !.body = tl_requests[tl_k].body,
                      !.sent = tl_requests[tl_k].body,
                      !.forwarded = TRUE,
                      !.storeBefore = TheStore, !.storeAfter = TheStore]
    /\ tl_pc' = "upstream"
    /\ UNCHANGED <<tl_requests, tl_k, tl_pipe, tl_log, storeVars, tlsOthers>>

\* a processRequest that empties the store when ParseRequest fails
TlsProcessParseErrorFlushing ==
    LET req == tl_requests[tl_k]
    IN  /\ tl_pc = "process"
        /\ RegistryDetect(req) # "none"
        /\ ~ParseRequest(req.body).ok
        /\ tl_last' = [NoProcessed EXCEPT !.kind = "parseerror", !.body = req.body,
                          !.sent = <<>>, !.forwarded = TRUE,
                          !.storeBefore = TheStore,
                          !.storeAfter = [mappings |-> EmptyMap,
                                          secretIndex |-> EmptyMap]]
        /\ mappings' = EmptyMap
        /\ secretIndex' = EmptyMap
        /\ tl_pc' = "upstream"
        /\ UNCHANGED <<tl_requests, tl_k, tl_pipe, tl_log, now, tlsOthers>>

\* processRequest, ParseRequest fails: the body has been read by io.ReadAll
\* and req.Body is set to an empty reader for RoundTrip(req).  The request
\* keeps its Content-Length: when that is not 0 the transport finds a body
\* shorter than declared and RoundTrip returns an error, which
\* handleTLSConnection answers with a 502, and returns.
TlsProcessParseError ==
    LET req      == tl_requests[tl_k]
        mismatch == ~req.chunked /\ Len(req.body) > 0
    IN  /\ tl_pc = "process"
        /\ RegistryDetect(req) # "none"
        /\ ~ParseRequest(req.body).ok
        /\ tl_last' = [NoProcessed EXCEPT !.kind = "parseerror", !.body = req.body,
                          !.sent = <<>>, !.forwarded = ~mismatch,
                          !.errorResponse = mismatch,
                          !.roundTrip = IF mismatch THEN "error" ELSE "none",
                          !.storeBefore = TheStore, !.storeAfter = TheStore]
        /\ tl_log' = IF mismatch
                     THEN Append(tl_log, <<"error", tl_k, sendErrorResponse(502)>>)
                     ELSE tl_log
        /\ tl_pc' = IF mismatch THEN "closed" ELSE "upstream"
        /\ UNCHANGED <<tl_requests, tl_k, tl_pipe, storeVars, tlsOthers>>

\* processRequest on a request the handler parses: DetectAll and the
\* replacements message by message, s.store.Store failing for any of the
\* secrets; the body is serialized again if a message had findings
TlsProcessForward ==
    LET req == tl_requests[tl_k]
        msg == ParseRequest(req.body)
    IN  /\ tl_pc = "process"
        /\ RegistryDetect(req) # "none"
        /\ msg.ok
        /\ \E secs \in DetectChoices(ServerInterceptors, msg.Messages) :
           \E failing \in SUBSET FoundValues(secs) :
              LET r        == messageLoop(msg.Messages, secs, 1, <<>>, TheStore, now, failing)
                  modified == CountFindings(secs) > 0
              IN  /\ ~r.panic
                  /\ tl_last' = [NoProcessed EXCEPT !.kind = "forwarded",
                        !.body = req.body,
                        !.sent = IF modified THEN SerializeRequest(r.contents)
                                 ELSE req.body,
                        !.forwarded = TRUE,
                        !.detectorRuns = Len(msg.Messages),
                        !.storeCalls = CountFindings(secs),
                        !.contents = msg.Messages, !.secrets = secs,
                        !.failing = failing,
                        !.storeBefore = TheStore, !.storeAfter = r.store]
                  /\ mappings' = r.store.mappings
                  /\ secretIndex' = r.store.secretIndex
        /\ tl_pc' = "upstream"
        /\ UNCHANGED <<tl_requests, tl_k, tl_pipe, tl_log, now, tlsOthers>>

\* processRequest panics in replaceSecret: the goroutine of the connection
\* ends, nothing is forwarded and nothing is written to the client
TlsProcessPanic ==
    LET req == tl_requests[tl_k]
        msg == ParseRequest(req.body)
    IN  /\ tl_pc = "process"
        /\ RegistryDetect(req) # "none"
        /\ msg.ok
        /\ \E secs \in DetectChoices(ServerInterceptors, msg.Messages) :
           \E failing \in SUBSET FoundValues(secs) :
              LET r == messageLoop(msg.Messages, secs, 1, <<>>, TheStore, now, failing)
              IN  /\ r.panic
                  /\ tl_last' = [NoProcessed EXCEPT !.kind = "panic",
                        !.body = req.body,
                        !.contents = msg.Messages, !.secrets = secs,
                        !.failing = failing,
                        !.storeBefore = TheStore, !.storeAfter = r.store]
                  /\ mappings' = r.store.mappings
                  /\ secretIndex' = r.store.secretIndex
        /\ tl_pc' = "panic"
        /\ UNCHANGED <<tl_requests, tl_k, tl_pipe, tl_log, now, tlsOthers>>

\* a handleTLSConnection that answers a failed RoundTrip with the 502 and
\* goes on with the next request
TlsRoundTripFailsKeepAlive ==
    /\ tl_pc = "upstream"
    /\ tl_last' = [tl_last EXCEPT !.roundTrip = "error"]
    /\ tl_log' = Append(tl_log, <<"error", tl_k, sendErrorResponse(502)>>)
    /\ tl_pc' = "read"
    /\ UNCHANGED <<tl_requests, tl_k, tl_pipe, storeVars, tlsOthers>>

\* RoundTrip returns an error: sendErrorResponse(502), and the loop returns
TlsRoundTripFails ==
    /\ tl_pc = "upstream"
    /\ tl_last' = [tl_last EXCEPT !.roundTrip = "error"]
    /\ tl_log' = Append(tl_log, <<"error", tl_k, sendErrorResponse(502)>>)
    /\ tl_pc' = "closed"
    /\ UNCHANGED <<tl_requests, tl_k, tl_pipe, storeVars, tlsOthers>>

\* RoundTrip returns a response whose body cannot be read: processResponse
\* returns the error of io.ReadAll, sendErrorResponse(500), the loop returns
TlsResponseFails ==
    /\ tl_pc = "upstream"
    /\ tl_last' = [tl_last EXCEPT !.roundTrip = "ok"]
    /\ tl_log' = Append(tl_log, <<"error", tl_k, sendErrorResponse(500)>>)
    /\ tl_pc' = "closed"
    /\ UNCHANGED <<tl_requests, tl_k, tl_pipe, storeVars, tlsOthers>>

\* RoundTrip returns a response that is not a stream: processJSONResponse,
\* processedResp.Write(clientConn) of the whole body
TlsJSONResponse ==
    /\ tl_pc = "upstream"
    /\ tl_last' = [tl_last EXCEPT !.roundTrip = "ok"]
    /\ tl_log' = tl_log \o << <<"write", tl_k>>, <<"end", tl_k>> >>
    /\ tl_pc' = "read"
    /\ UNCHANGED <<tl_requests, tl_k, tl_pipe, storeVars, tlsOthers>>

\* RoundTrip returns an event stream: processStreamingResponse starts its
\* goroutine and returns the response whose body is the read end of the
\* pipe; processedResp.Write(clientConn) begins
TlsStreamingResponse ==
    /\ tl_pc = "upstream"
    /\ \E parts \in 1..MaxParts :
          tl_pipe' = [left |-> parts, full |-> FALSE, closed |-> FALSE]
    /\ tl_last' = [tl_last EXCEPT !.roundTrip = "ok"]
    /\ tl_pc' = "streaming"
    /\ UNCHANGED <<tl_requests, tl_k, tl_log, storeVars, tlsOthers>>

\* the goroutine: pw.Write of a restored part, which waits for its reader
TlsPipeWrite ==
    /\ tl_pc = "streaming"
    /\ tl_pipe.left > 0 /\ ~tl_pipe.full
    /\ tl_pipe' = [tl_pipe EXCEPT !.left = @ - 1, !.full = TRUE]
    /\ UNCHANGED <<tl_requests, tl_k, tl_pc, tl_last, tl_log, storeVars, tlsOthers>>

\* processedResp.Write: a part is read from the pipe and written to the client
TlsCopyPart ==
    /\ tl_pc = "streaming"
    /\ tl_pipe.full
    /\ tl_pipe' = [tl_pipe EXCEPT !.full = FALSE]
    /\ tl_log' = Append(tl_log, <<"write", tl_k>>)
    /\ UNCHANGED <<tl_requests, tl_k, tl_pc, tl_last, storeVars, tlsOthers>>

\* the goroutine returns: the deferred pw.Close()
TlsPipeClose ==
    /\ tl_pc = "streaming"
    /\ tl_pipe.left = 0 /\ ~tl_pipe.full /\ ~tl_pipe.closed
    /\ tl_pipe' = [tl_pipe EXCEPT !.closed = TRUE]
    /\ UNCHANGED <<tl_requests, tl_k, tl_pc, tl_last, tl_log, storeVars, tlsOthers>>

\* a Write that returns before the pipe is closed
WriteReturnsEarly(pipe) == ~pipe.full

\* processedResp.Write returns when the read end of the pipe is at EOF
WriteReturns(pipe) == pipe.closed /\ ~pipe.full

\* processedResp.Write has returned: Body.Close(), and the loop goes round
TlsWriteReturns ==
    /\ tl_pc = "streaming"
    /\ WriteReturns(tl_pipe)
    /\ tl_log' = Append(tl_log, <<"end", tl_k>>)
    /\ tl_pc' = "read"
    /\ UNCHANGED <<tl_requests, tl_k, tl_last, tl_pipe, storeVars, tlsOthers>>

TlsNext ==
    \/ TlsHandshake \/ TlsHandshakeFails
    \/ TlsReadRequest \/ TlsReadEOF
    \/ TlsProcessNoHandler \/ TlsProcessParseError
    \/ TlsProcessForward \/ TlsProcessPanic
    \/ TlsRoundTripFails \/ TlsResponseFails
    \/ TlsJSONResponse \/ TlsStreamingResponse
    \/ TlsPipeWrite \/ TlsCopyPart \/ TlsPipeClose \/ TlsWriteReturns

(***************************************************************************)
(* internal/protocol: Registry                                             *)
(***************************************************************************)
\* the handlers a caller can register: Name(), Priority() and the requests
\* CanHandle accepts
RegistryPool ==
    {[name |-> "openai", priority |-> 100, accepts |-> {"chat"}],
     [name |-> "azure", priority |-> 100, accepts |-> {"chat", "deployment"}],
     [name |-> "generic", priority |-> 50, accepts |-> {"chat", "deployment", "embedding"}],
     [name |-> "legacy", priority |-> 10, accepts |-> {"deployment"}]}

\* the requests handed to Detect
RegistryRequests == {"chat", "deployment", "embedding", "plain"}

\* no Detect call has been made
NoDetect ==
    [req |-> "none", before |-> <<>>, handlers |-> <<>>, result |-> "none",
     again |-> FALSE]

\* NewRegistry
NewRegistry == [handlers |-> <<>>, sorted |-> FALSE]

\* a Register that leaves the sorted flag as it is
RegisterKeepingSorted(r, h) == [handlers |-> Append(r.handlers, h), sorted |-> r.sorted]

\* Registry.Register
Register(r, h) == [handlers |-> Append(r.handlers, h), sorted |-> FALSE]

\* the slices sort.Slice can leave: the orders of the handlers with the
\* priorities descending (the sort is not stable)
SortedByPriority(handlers) ==
    {[n \in 1..Len(handlers) |-> handlers[o[n]]] :
        o \in {o \in [1..Len(handlers) -> 1..Len(handlers)] :
                 /\ \A i, j \in 1..Len(handlers) : i # j => o[i] # o[j]
                 /\ \A i, j \in 1..Len(handlers) :
                       i < j => handlers[o[i]].priority >= handlers[o[j]].priority}}

\* Registry.sortHandlers: the registries it can leave
sortHandlers(r) ==
    IF r.sorted THEN {r}
    ELSE {[handlers |-> hs, sorted |-> TRUE] : hs \in SortedByPriority(r.handlers)}

\* the loop of Registry.Detect: the name of the first handler of the slice
\* that accepts the request, or "none" for nil
RECURSIVE FirstAccepting(_, _)
FirstAccepting(handlers, req) ==
    IF handlers = <<>> THEN "none"
    ELSE IF req \in Head(handlers).accepts THEN Head(handlers).name
    ELSE FirstAccepting(Tail(handlers), req)

\* the handlers of a slice, as a set
HandlersOf(handlers) == {handlers[n] : n \in 1..Len(handlers)}

RegistryInit ==
    /\ rg_handlers = NewRegistry.handlers
    /\ rg_sorted = NewRegistry.sorted
    /\ rg_last = NoDetect

\* a caller registers a handler
RegistryRegister ==
    /\ Len(rg_handlers) < MaxHandlers
    /\ \E h \in RegistryPool :
          /\ \A n \in 1..Len(rg_handlers) : rg_handlers[n] # h
          /\ LET r == Register([handlers |-> rg_handlers, sorted |-> rg_sorted], h)
             IN  rg_handlers' = r.handlers /\ rg_sorted' = r.sorted
    /\ UNCHANGED <<rg_last, registryOthers>>

\* a caller calls Detect: sortHandlers, then the loop
RegistryDetectCall ==
    /\ \E req \in RegistryRequests :
       \E r \in sortHandlers([handlers |-> rg_handlers, sorted |-> rg_sorted]) :
          /\ rg_handlers' = r.handlers
          /\ rg_sorted' = r.sorted
          /\ rg_last' = [req |-> req, before |-> rg_handlers, handlers |-> r.handlers,
                         result |-> FirstAccepting(r.handlers, req),
                         again |-> rg_last.req # "none"]
    /\ UNCHANGED registryOthers

RegistryNext == RegistryRegister \/ RegistryDetectCall

(***************************************************************************)
(* internal/proxy: CertManager.GetCertificate, called concurrently         *)
(***************************************************************************)
\* the goroutines of the TLS handshakes
CertThreads == 1..2

\* hello.ServerName of a handshake; "" is a ClientHello without SNI
ServerNames == {"", "localhost", "example.com"}

\* the name GetCertificate looks up: hello.ServerName, or "localhost"
CertHostname(serverName) == IF serverName = "" THEN "localhost" ELSE serverName

\* a goroutine outside GetCertificate
IdleHandshake == [pc |-> "idle", hostname |-> "", cert |-> 0]

\* the calls of GetCertificate made so far, returned or under way
CertCalls ==
    Len(cm_returned) + Cardinality({t \in CertThreads : cm_threads[t].pc # "idle"})

CertsInit ==
    /\ cm_cache = EmptyMap
    /\ cm_threads = [t \in CertThreads |-> IdleHandshake]
    /\ cm_serial = 0
    /\ cm_returned = <<>>

\* GetCertificate is called: hostname := hello.ServerName, or "localhost"
GetCertificateCall(t) ==
    /\ cm_threads[t].pc = "idle"
    /\ CertCalls < MaxCertCalls
    /\ \E serverName \in ServerNames :
          cm_threads' = [cm_threads EXCEPT ![t] =
                            [pc |-> "check", hostname |-> CertHostname(serverName),
                             cert |-> 0]]
    /\ UNCHANGED <<cm_cache, cm_serial, cm_returned, certOthers>>

\* the section under cacheMu.RLock that finds the hostname: return cert
GetCertificateHit(t) ==
    /\ cm_threads[t].pc = "check"
    /\ cm_threads[t].hostname \in DOMAIN cm_cache
    /\ cm_returned' = Append(cm_returned,
                             <<cm_threads[t].hostname, cm_cache[cm_threads[t].hostname]>>)
    /\ cm_threads' = [cm_threads EXCEPT ![t] = IdleHandshake]
    /\ UNCHANGED <<cm_cache, cm_serial, certOthers>>

\* the section under cacheMu.RLock that misses: the lock is released
GetCertificateMiss(t) ==
    /\ cm_threads[t].pc = "check"
    /\ cm_threads[t].hostname \notin DOMAIN cm_cache
    /\ cm_threads' = [cm_threads EXCEPT ![t].pc = "generate"]
    /\ UNCHANGED <<cm_cache, cm_serial, cm_returned, certOthers>>

\* cm.generateCert(hostname), under no lock: a new *tls.Certificate
GenerateCert(t) ==
    /\ cm_threads[t].pc = "generate"
    /\ cm_serial' = cm_serial + 1
    /\ cm_threads' = [cm_threads EXCEPT ![t].pc = "store", ![t].cert = cm_serial + 1]
    /\ UNCHANGED <<cm_cache, cm_returned, certOthers>>

\* cm.generateCert fails: GetCertificate returns (nil, err)
GenerateCertFails(t) ==
    /\ cm_threads[t].pc = "generate"
    /\ cm_threads' = [cm_threads EXCEPT ![t] = IdleHandshake]
    /\ cm_returned' = Append(cm_returned, <<cm_threads[t].hostname, 0>>)
    /\ UNCHANGED <<cm_cache, cm_serial, certOthers>>

\* the section under cacheMu.Lock: cm.cache[hostname] = cert; return cert
GetCertificateStore(t) ==
    /\ cm_threads[t].pc = "store"
    /\ cm_cache' = MapPut(cm_cache, cm_threads[t].hostname, cm_threads[t].cert)
    /\ cm_returned' = Append(cm_returned, <<cm_threads[t].hostname, cm_threads[t].cert>>)
    /\ cm_threads' = [cm_threads EXCEPT ![t] = IdleHandshake]
    /\ UNCHANGED <<cm_serial, certOthers>>

CertsNext ==
    \E t \in CertThreads :
        \/ GetCertificateCall(t) \/ GetCertificateHit(t) \/ GetCertificateMiss(t)
        \/ GenerateCert(t) \/ GenerateCertFails(t) \/ GetCertificateStore(t)

(***************************************************************************)
(* internal/storage: MemoryStore from NewMemoryStore to Close              *)
(***************************************************************************)
\* the goroutines that call Close
CloseCallers == 1..2

\* the placeholder and the secrets the callers of the store pass
MemoryPlaceholder == Generate(<<"k", "a">>)
MemorySecrets == {<<"k", "a">>, <<"k", "b">>}

\* no call has been made on the store
NoMemoryCall ==
    [op |-> "none", closed |-> FALSE, err |-> FALSE, found |-> FALSE,
     before |-> [mappings |-> EmptyMap, secretIndex |-> EmptyMap],
     after |-> [mappings |-> EmptyMap, secretIndex |-> EmptyMap]]

\* a Close has returned
CloseReturned == \E c \in CloseCallers : ms_callers[c] = "returned"

\* MemoryStore.Close: close(m.stopCleanup); return nil.  Closing a closed
\* channel panics.
Close(channel) == [channel |-> "closed", panic |-> channel = "closed"]

\* NewMemoryStore: the maps, the channel, go store.cleanupLoop()
MemoryInit ==
    /\ mappings = EmptyMap
    /\ secretIndex = EmptyMap
    /\ now = 0
    /\ ms_channel = "open"
    /\ ms_loop = "select"
    /\ ms_callers = [c \in CloseCallers |-> "ready"]
    /\ ms_last = NoMemoryCall
    /\ ms_log = <<>>

\* a caller calls Close
MemoryClose(c) ==
    /\ ms_callers[c] = "ready"
    /\ LET r == Close(ms_channel)
       IN  /\ ms_channel' = r.channel
           /\ ms_callers' = [ms_callers EXCEPT ![c] =
                                IF r.panic THEN "panic" ELSE "returned"]
    /\ UNCHANGED <<ms_loop, ms_last, ms_log, storeVars, memoryOthers>>

\* cleanupLoop, case <-ticker.C: m.Cleanup()
CleanupLoopSweep ==
    /\ ms_loop = "select"
    /\ Len(ms_log) < MaxSweeps
    /\ LET st == CleanupOp(TheStore, now)
       IN  mappings' = st.mappings /\ secretIndex' = st.secretIndex
    /\ ms_log' = Append(ms_log, "cleanup")
    /\ UNCHANGED <<now, ms_channel, ms_loop, ms_callers, ms_last, memoryOthers>>

\* a cleanupLoop whose select has no case for the channel
CleanupLoopDeaf ==
    /\ ms_loop = "select"
    /\ ms_channel = "gone"
    /\ ms_loop' = "returned"
    /\ ms_log' = Append(ms_log, "return")
    /\ UNCHANGED <<ms_channel, ms_callers, ms_last, storeVars, memoryOthers>>

\* cleanupLoop, case <-m.stopCleanup: return
CleanupLoopReturn ==
    /\ ms_loop = "select"
    /\ ms_channel = "closed"
    /\ ms_loop' = "returned"
    /\ ms_log' = Append(ms_log, "return")
    /\ UNCHANGED <<ms_channel, ms_callers, ms_last, storeVars, memoryOthers>>

\* store.Store(placeholder, secret)
MemoryStoreCall ==
    /\ \E x \in MemorySecrets :
          LET st == StoreOp(TheStore, MemoryPlaceholder, x, now)
          IN  /\ mappings' = st.mappings
              /\ secretIndex' = st.secretIndex
              /\ ms_last' = [op |-> "Store", closed |-> CloseReturned, err |-> FALSE,
                             found |-> FALSE, before |-> TheStore, after |-> st]
    /\ UNCHANGED <<now, ms_channel, ms_loop, ms_callers, ms_log, memoryOthers>>

\* store.Lookup(placeholder)
MemoryLookupCall ==
    /\ LET st == TouchOp(TheStore, MemoryPlaceholder, now)
       IN  /\ mappings' = st.mappings
           /\ ms_last' = [op |-> "Lookup", closed |-> CloseReturned, err |-> FALSE,
                          found |-> MemoryPlaceholder \in DOMAIN mappings,
                          before |-> TheStore, after |-> st]
    /\ UNCHANGED <<secretIndex, now, ms_channel, ms_loop, ms_callers, ms_log,
                   memoryOthers>>

\* store.LookupBySecret(secret): the reverse index, then Touch on a hit
MemoryLookupBySecretCall ==
    /\ \E x \in MemorySecrets :
          LET st == IF x \in DOMAIN secretIndex
                    THEN TouchOp(TheStore, secretIndex[x], now) ELSE TheStore
          IN  /\ mappings' = st.mappings
              /\ ms_last' = [op |-> "LookupBySecret", closed |-> CloseReturned,
                             err |-> FALSE, found |-> x \in DOMAIN secretIndex,
                             before |-> TheStore, after |-> st]
    /\ UNCHANGED <<secretIndex, now, ms_channel, ms_loop, ms_callers, ms_log,
                   memoryOthers>>

\* store.Touch(placeholder)
MemoryTouchCall ==
    /\ LET st == TouchOp(TheStore, MemoryPlaceholder, now)
       IN  /\ mappings' = st.mappings
           /\ ms_last' = [op |-> "Touch", closed |-> CloseReturned, err |-> FALSE,
                          found |-> FALSE, before |-> TheStore, after |-> st]
    /\ UNCHANGED <<secretIndex, now, ms_channel, ms_loop, ms_callers, ms_log,
                   memoryOthers>>

\* time passes
MemoryTick ==
    /\ now < MaxTime
    /\ now' = now + 1
    /\ UNCHANGED <<mappings, secretIndex, memoryVars, memoryOthers>>

MemoryNext ==
    \/ \E c \in CloseCallers : MemoryClose(c)
    \/ CleanupLoopSweep \/ CleanupLoopReturn
    \/ MemoryStoreCall \/ MemoryLookupCall \/ MemoryLookupBySecretCall
    \/ MemoryTouchCall \/ MemoryTick

(***************************************************************************)
(* internal/proxy: Server.Start, the connections, Server.Stop              *)
(***************************************************************************)
\* the connections clients open to the engine
ShutdownConns == 1..2

\* a connection no client has opened yet.  A connection is "idle" between
\* requests, "active" while ServeHTTP runs handleHTTP on it, and "tunnel"
\* once handleConnect has hijacked it and runs handleTLSConnection on it.
NoConn == [state |-> "none", served |-> 0]

\* the connections httpServer tracks: a hijacked connection is not one
Tracked(conns) == {c \in ShutdownConns : conns[c].state \in {"idle", "active"}}

\* Server.Start: the listener is open and httpServer.Serve runs
ShutdownInit ==
    /\ sh_listener = "open"
    /\ sh_conns = [c \in ShutdownConns |-> NoConn]
    /\ sh_stop = "running"
    /\ sh_store = "open"
    /\ sh_log = <<>>

\* httpServer.Serve accepts a connection
ShAccept(c) ==
    /\ sh_listener = "open"
    /\ sh_conns[c].state = "none"
    /\ sh_conns' = [sh_conns EXCEPT ![c].state = "idle"]
    /\ UNCHANGED <<sh_listener, sh_stop, sh_store, sh_log, shutdownOthers>>

\* ServeHTTP on a request that is not a CONNECT: handleHTTP begins
ShHandleHTTP(c) ==
    /\ sh_conns[c].state = "idle"
    /\ sh_conns[c].served < MaxPipelined
    /\ sh_conns' = [sh_conns EXCEPT ![c].state = "active"]
    /\ UNCHANGED <<sh_listener, sh_stop, sh_store, sh_log, shutdownOthers>>

\* handleHTTP returns: the response has been copied to the client
ShHandleHTTPReturns(c) ==
    /\ sh_conns[c].state = "active"
    /\ sh_conns' = [sh_conns EXCEPT ![c].state = "idle", ![c].served = @ + 1]
    /\ sh_log' = Append(sh_log, <<"http", c>>)
    /\ UNCHANGED <<sh_listener, sh_stop, sh_store, shutdownOthers>>

\* ServeHTTP on a CONNECT: handleConnect hijacks the connection, does the
\* handshake and calls handleTLSConnection
ShHandleConnect(c) ==
    /\ sh_conns[c].state = "idle"
    /\ sh_conns[c].served = 0
    /\ sh_conns' = [sh_conns EXCEPT ![c].state = "tunnel"]
    /\ UNCHANGED <<sh_listener, sh_stop, sh_store, sh_log, shutdownOthers>>

\* handleTLSConnection, one turn of its loop: a request is read, processed
\* with the store and forwarded, its response is restored and written
ShTunnelRequest(c) ==
    /\ sh_conns[c].state = "tunnel"
    /\ sh_conns[c].served < MaxPipelined
    /\ sh_conns' = [sh_conns EXCEPT ![c].served = @ + 1]
    /\ sh_log' = Append(sh_log, <<"tunnel", c>>)
    /\ UNCHANGED <<sh_listener, sh_stop, sh_store, shutdownOthers>>

\* the client ends the connection: http.ReadRequest fails in
\* handleTLSConnection, or the server reads EOF on an idle connection
ShClientCloses(c) ==
    /\ sh_conns[c].state \in {"idle", "tunnel"}
    /\ sh_conns' = [sh_conns EXCEPT ![c].state = "closed"]
    /\ UNCHANGED <<sh_listener, sh_stop, sh_store, sh_log, shutdownOthers>>

\* Server.Stop is called: httpServer.Shutdown(ctx) closes the listener
ShStop ==
    /\ sh_stop = "running"
    /\ sh_stop' = "shutdown"
    /\ sh_listener' = "closed"
    /\ sh_log' = Append(sh_log, <<"stop", 0>>)
    /\ UNCHANGED <<sh_conns, sh_store, shutdownOthers>>

\* Shutdown closes the idle connections it tracks
ShCloseIdle ==
    /\ sh_stop = "shutdown"
    /\ \E c \in ShutdownConns : sh_conns[c].state = "idle"
    /\ sh_conns' = [c \in ShutdownConns |->
                       IF sh_conns[c].state = "idle"
                       THEN [sh_conns[c] EXCEPT !.state = "closed"] ELSE sh_conns[c]]
    /\ UNCHANGED <<sh_listener, sh_stop, sh_store, sh_log, shutdownOthers>>

\* Shutdown returns nil: no tracked connection is left
ShShutdownReturns ==
    /\ sh_stop = "shutdown"
    /\ Tracked(sh_conns) = {}
    /\ sh_stop' = "wait"
    /\ UNCHANGED <<sh_listener, sh_conns, sh_store, sh_log, shutdownOthers>>

\* the 30 s of ctx are over with a tracked connection still active:
\* Shutdown returns the error of ctx and Stop returns it
ShShutdownTimeout ==
    /\ sh_stop = "shutdown"
    /\ \E c \in ShutdownConns : sh_conns[c].state = "active"
    /\ sh_stop' = "failed"
    /\ sh_log' = Append(sh_log, <<"returned", 0>>)
    /\ UNCHANGED <<sh_listener, sh_conns, sh_store, shutdownOthers>>

\* s.wg.Wait() returns, Serve having returned; s.store.Close()
ShStoreClose ==
    /\ sh_stop = "wait"
    /\ sh_store' = "closed"
    /\ sh_stop' = "closing"
    /\ sh_log' = Append(sh_log, <<"storeclose", 0>>)
    /\ UNCHANGED <<sh_listener, sh_conns, shutdownOthers>>

\* Stop returns nil
ShStopReturns ==
    /\ sh_stop = "closing"
    /\ sh_stop' = "returned"
    /\ sh_log' = Append(sh_log, <<"returned", 0>>)
    /\ UNCHANGED <<sh_listener, sh_conns, sh_store, shutdownOthers>>

ShutdownNext ==
    \/ \E c \in ShutdownConns :
          \/ ShAccept(c) \/ ShHandleHTTP(c) \/ ShHandleHTTPReturns(c)
          \/ ShHandleConnect(c) \/ ShTunnelRequest(c) \/ ShClientCloses(c)
    \/ ShStop \/ ShCloseIdle \/ ShShutdownReturns \/ ShShutdownTimeout
    \/ ShStoreClose \/ ShStopReturns

(***************************************************************************)
(* internal/protocol: OpenAIHandler on requests with structured contents,  *)
(* and Server.processRequest around it                                     *)
(***************************************************************************)
\* a content that is a JSON string
StringContent(text) == [kind |-> "string", text |-> text, parts |-> <<>>]

\* a content that is a list of typed parts
PartsContent(parts) == [kind |-> "parts", text |-> <<>>, parts |-> parts]

\* a part of type "text", and a part of another type
TextPart(text) == [type |-> "text", text |-> text]
ImagePart == [type |-> "image_url", text |-> <<>>]

\* a text in which no detector finds anything
PlainText == <<"a", "b">>

\* the contents of the messages: a plain string, a string that holds a
\* secret, a list with the secret as its one text part, and a list with a
\* plain text part and a part that is not text
OpenAIContents ==
    {StringContent(PlainText), StringContent(GithubTokenText),
     PartsContent(<<TextPart(GithubTokenText)>>),
     PartsContent(<<TextPart(PlainText), ImagePart>>)}

\* the messages: role and name are fields of openAIMessage; `unknown` says
\* whether the message has a field that openAIMessage does not declare
OpenAIMessages ==
    [role : {"user", "system"}, content : OpenAIContents, name : {"", "n"},
     unknown : BOOLEAN]

\* the requests: `unknown` says whether the request has a top-level field
\* that openAIRequest does not declare, `compact` whether its bytes are
\* the ones json.Marshal writes (keys in order, no insignificant space)
OpenAIRequests ==
    [model : {"m"}, unknown : BOOLEAN, compact : BOOLEAN,
     messages : SeqsUpTo(OpenAIMessages, MaxOpenAIMessages) \ {<<>>}]

\* the texts of the parts of type "text", joined by line feeds
RECURSIVE joinTexts(_)
joinTexts(parts) ==
    IF parts = <<>> THEN <<>>
    ELSE LET rest == joinTexts(Tail(parts))
         IN  IF Head(parts).type # "text" THEN rest
             ELSE IF \A n \in 1..Len(Tail(parts)) : Tail(parts)[n].type # "text"
                  THEN Head(parts).text
                  ELSE Head(parts).text \o <<NL>> \o rest

\* openAIMessage.getContentString
getContentString(content) ==
    IF content.kind = "string" THEN content.text ELSE joinTexts(content.parts)

\* openAIMessage.setContentString
setContentString(m, text) == [m EXCEPT !.content = StringContent(text)]

\* json.Unmarshal of a message into openAIMessage: the fields the struct
\* declares
unmarshalMessage(m) == [m EXCEPT !.unknown = FALSE]

\* OpenAIHandler.ParseRequest: the contents as strings, and the raw request
\* kept in the metadata
OpenAIParseRequest(req) ==
    [Messages |-> [i \in 1..Len(req.messages) |->
                      [Role |-> req.messages[i].role,
                       Content |-> getContentString(req.messages[i].content)]],
     raw |-> req]

\* OpenAIHandler.SerializeRequest: the raw request with its messages array
\* written anew, the content of every message set from the StandardMessage
OpenAISerializeRequest(msg) ==
    [msg.raw EXCEPT
        !.compact = TRUE,
        !.messages = [i \in 1..Len(msg.raw.messages) |->
                         IF i <= Len(msg.Messages)
                         THEN setContentString(unmarshalMessage(msg.raw.messages[i]),
                                               msg.Messages[i].Content)
                         ELSE unmarshalMessage(msg.raw.messages[i])]]

\* a request has been read by a Server whose store is empty or holds a
\* mapping of an earlier request
OpenAIInit ==
    /\ oa_request \in OpenAIRequests
    /\ oa_msg = <<>>
    /\ oa_modified = FALSE
    /\ oa_out = <<>>
    /\ oa_pc = "new"
    /\ RestorerStoreInit

\* processRequest: handler.ParseRequest(body)
OpenAIParse ==
    /\ oa_pc = "new"
    /\ oa_msg' = OpenAIParseRequest(oa_request)
    /\ oa_pc' = "parsed"
    /\ UNCHANGED <<oa_request, oa_modified, oa_out, storeVars, openaiOthers>>

\* processRequest: the loop over the messages
OpenAIReplaceSecrets ==
    LET contents == [i \in 1..Len(oa_msg.Messages) |-> oa_msg.Messages[i].Content]
    IN  /\ oa_pc = "parsed"
        /\ \E secs \in DetectChoices(ServerInterceptors, contents) :
              LET r == messageLoop(contents, secs, 1, <<>>, TheStore, now, {})
              IN  /\ ~r.panic
                  /\ oa_msg' = [oa_msg EXCEPT !.Messages =
                                   [i \in 1..Len(contents) |->
                                       [oa_msg.Messages[i] EXCEPT !.Content = r.contents[i]]]]
                  /\ oa_modified' = (CountFindings(secs) > 0)
                  /\ mappings' = r.store.mappings
                  /\ secretIndex' = r.store.secretIndex
        /\ oa_pc' = "processed"
        /\ UNCHANGED <<oa_request, oa_out, now, openaiOthers>>

\* processRequest, modified: handler.SerializeRequest(msg), and the new
\* body is forwarded
OpenAISerialize ==
    /\ oa_pc = "processed"
    /\ oa_modified
    /\ oa_out' = OpenAISerializeRequest(oa_msg)
    /\ oa_pc' = "serialized"
    /\ UNCHANGED <<oa_request, oa_msg, oa_modified, storeVars, openaiOthers>>

\* a processRequest that serializes the request whether modified or not
OpenAIForwardSerialized ==
    /\ oa_pc = "processed"
    /\ ~oa_modified
    /\ oa_out' = OpenAISerializeRequest(oa_msg)
    /\ oa_pc' = "forwarded"
    /\ UNCHANGED <<oa_request, oa_msg, oa_modified, storeVars, openaiOthers>>

\* processRequest, not modified: the body that was read is forwarded
OpenAIForwardBody ==
    /\ oa_pc = "processed"
    /\ ~oa_modified
    /\ oa_out' = oa_request
    /\ oa_pc' = "forwarded"
    /\ UNCHANGED <<oa_request, oa_msg, oa_modified, storeVars, openaiOthers>>

OpenAINext ==
    OpenAIParse \/ OpenAIReplaceSecrets \/ OpenAISerialize \/ OpenAIForwardBody

(***************************************************************************)
(* internal/proxy: Server.processResponse                                  *)
(***************************************************************************)
\* the Content-Type headers of the upstream responses: the three that
\* isStreamingResponse names, one of them with a parameter, and JSON
ContentTypes ==
    {"text/event-stream", "application/x-ndjson", "application/stream+json",
     "text/event-stream; charset=utf-8", "application/json"}

\* isStreamingResponse
isStreamingResponse(contentType) ==
    \/ contentType = "text/event-stream"
    \/ contentType = "application/x-ndjson"
    \/ contentType = "application/stream+json"

\* the responses of the upstream: `handler` says whether the request
\* matched a protocol handler
UpstreamResponses ==
    {[contentType |-> ct, body |-> body, ContentLength |-> Len(body),
      header |-> Len(body), handler |-> h] :
        ct \in ContentTypes, body \in SeqsUpTo(StreamChars, MaxBodyLen), h \in BOOLEAN}

NoResponse == [kind |-> "none", body |-> <<>>, ContentLength |-> 0, header |-> 0]

\* a processJSONResponse that leaves the lengths as the upstream sent them
processJSONResponseStale(resp, table) ==
    [kind |-> "json", body |-> RestorePlaceholders(resp.body, table),
     ContentLength |-> resp.ContentLength, header |-> resp.header]

\* processJSONResponse: the body restored, ContentLength and the
\* Content-Length header set to the length of the new body
processJSONResponse(resp, table) ==
    LET newBody == RestorePlaceholders(resp.body, table)
    IN  [kind |-> "json", body |-> newBody,
         ContentLength |-> Len(newBody), header |-> Len(newBody)]

\* the upstream has answered a Server whose store is empty or holds a
\* mapping of an earlier request
ResponseInit ==
    /\ jr_response \in UpstreamResponses
    /\ jr_result = NoResponse
    /\ jr_pc = "new"
    /\ RestorerStoreInit

\* processResponse of a response that is no stream: processJSONResponse
ProcessJSONResponse ==
    /\ jr_pc = "new"
    /\ ~isStreamingResponse(jr_response.contentType)
    /\ jr_result' = processJSONResponse(jr_response, LookupTable(mappings))
    /\ mappings' = TouchAll(mappings, LookedUp(jr_response.body), now)
    /\ jr_pc' = "returned"
    /\ UNCHANGED <<jr_response, secretIndex, now, responseOthers>>

\* processResponse of a response that is no stream, io.ReadAll fails: the
\* error is returned
ProcessJSONResponseFails ==
    /\ jr_pc = "new"
    /\ ~isStreamingResponse(jr_response.contentType)
    /\ jr_result' = [NoResponse EXCEPT !.kind = "error"]
    /\ jr_pc' = "returned"
    /\ UNCHANGED <<jr_response, storeVars, responseOthers>>

\* processResponse of a stream: processStreamingResponse returns the
\* response with the reading end of a pipe as its body
ProcessStreamingResponse ==
    /\ jr_pc = "new"
    /\ isStreamingResponse(jr_response.contentType)
    /\ jr_result' = [NoResponse EXCEPT !.kind = "stream"]
    /\ jr_pc' = "returned"
    /\ UNCHANGED <<jr_response, storeVars, responseOthers>>

ResponseNext ==
    ProcessJSONResponse \/ ProcessJSONResponseFails \/ ProcessStreamingResponse

(***************************************************************************)
(* internal/protocol: StreamBuffer under any sequence of calls             *)
(***************************************************************************)
\* the data of the Write calls
WriteData == SeqsUpTo({"a", "b"}, MaxChunk) \ {<<>>}

NoBufferCall == [op |-> "none", before |-> <<>>, isNil |-> TRUE, data |-> <<>>]

\* NewStreamBuffer(maxLength)
StreamBufferInit ==
    /\ sb_buffer = <<>>
    /\ sb_written = <<>>
    /\ sb_returned = <<>>
    /\ sb_last = NoBufferCall

\* StreamBuffer.Write(data)
StreamBufferWriteCall ==
    \E data \in WriteData :
       /\ Len(sb_written) + Len(data) <= MaxWritten
       /\ sb_buffer' = BufferWrite(sb_buffer, data)
       /\ sb_written' = sb_written \o data
       /\ sb_last' = [op |-> "Write", before |-> sb_buffer, isNil |-> TRUE,
                      data |-> data]
       /\ UNCHANGED <<sb_returned, bytesOthers>>

\* StreamBuffer.Flush()
StreamBufferFlushCall ==
    LET flushed == BufferFlush(sb_buffer)
    IN  /\ sb_buffer' = flushed.buffer
        /\ sb_returned' = sb_returned \o flushed.safe
        /\ sb_last' = [op |-> "Flush", before |-> sb_buffer, isNil |-> flushed.isNil,
                       data |-> flushed.safe]
        /\ UNCHANGED <<sb_written, bytesOthers>>

\* StreamBuffer.FlushAll()
StreamBufferFlushAllCall ==
    LET flushed == BufferFlushAll(sb_buffer)
    IN  /\ sb_buffer' = flushed.buffer
        /\ sb_returned' = sb_returned \o flushed.data
        /\ sb_last' = [op |-> "FlushAll", before |-> sb_buffer, isNil |-> FALSE,
                       data |-> flushed.data]
        /\ UNCHANGED <<sb_written, bytesOthers>>

StreamBufferNext ==
    StreamBufferWriteCall \/ StreamBufferFlushCall \/ StreamBufferFlushAllCall

(***************************************************************************)
(* internal/protocol: Registry.Detect called by the connection tasks       *)
(***************************************************************************)
\* the goroutines of the connections, each in processRequest
RaceTasks == 1..2

\* a task outside Detect
IdleTask == [pc |-> "idle", req |-> "none", raced |-> FALSE, result |-> "none"]

\* the handlers registered before the server accepts connections, in the
\* order of their Register calls
RegisteredHandlers ==
    {hs \in SeqsUpTo(RegistryPool, MaxHandlers) \ {<<>>} :
        \A i, j \in 1..Len(hs) : i # j => hs[i] # hs[j]}

\* what unsynchronized writes and reads of the elements of the slice can
\* leave or see: any handler in any slot
Arrangements(handlers) == [1..Len(handlers) -> HandlersOf(handlers)]

\* every Register has returned, no Detect has been called
RaceInit ==
    /\ rt_handlers \in RegisteredHandlers
    /\ rt_sorted = FALSE
    /\ rt_tasks = [t \in RaceTasks |-> IdleTask]

\* processRequest calls s.registry.Detect(req)
RaceDetectCall ==
    \E t \in RaceTasks, req \in RegistryRequests :
       /\ rt_tasks[t].pc = "idle"
       /\ rt_tasks' = [rt_tasks EXCEPT ![t] = [IdleTask EXCEPT !.pc = "check",
                                                              !.req = req]]
       /\ UNCHANGED <<rt_handlers, rt_sorted, raceOthers>>

\* sortHandlers reads r.sorted, with no lock: it returns, or enters
\* sort.Slice on r.handlers, beside any task that is in it already
RaceReadSorted ==
    \E t \in RaceTasks :
       /\ rt_tasks[t].pc = "check"
       /\ rt_tasks' =
             IF rt_sorted
             THEN [rt_tasks EXCEPT ![t].pc = "loop"]
             ELSE LET others == \E u \in RaceTasks \ {t} : rt_tasks[u].pc = "sorting"
                  IN  [u \in RaceTasks |->
                         IF u = t
                         THEN [rt_tasks[t] EXCEPT !.pc = "sorting", !.raced = others]
                         ELSE IF rt_tasks[u].pc = "sorting"
                         THEN [rt_tasks[u] EXCEPT !.raced = TRUE]
                         ELSE rt_tasks[u]]
       /\ UNCHANGED <<rt_handlers, rt_sorted, raceOthers>>

\* sort.Slice returns: the slice is in an order of descending priority,
\* or, when another sort.Slice swapped elements of it meanwhile, in any
\* arrangement
RaceSortSlice ==
    \E t \in RaceTasks :
       /\ rt_tasks[t].pc = "sorting"
       /\ rt_handlers' \in (IF rt_tasks[t].raced THEN Arrangements(rt_handlers)
                            ELSE SortedByPriority(rt_handlers))
       /\ rt_tasks' = [rt_tasks EXCEPT ![t].pc = "setflag"]
       /\ UNCHANGED <<rt_sorted, raceOthers>>

\* sortHandlers writes r.sorted = true, with no lock
RaceSetSorted ==
    \E t \in RaceTasks :
       /\ rt_tasks[t].pc = "setflag"
       /\ rt_sorted' = TRUE
       /\ rt_tasks' = [rt_tasks EXCEPT ![t].pc = "loop"]
       /\ UNCHANGED <<rt_handlers, raceOthers>>

\* the loop of Detect over r.handlers: the first handler that accepts the
\* request, of the slice as it is or, while a sort.Slice is swapping its
\* elements, of any arrangement of it
RaceLoop ==
    \E t \in RaceTasks :
       /\ rt_tasks[t].pc = "loop"
       /\ \E hs \in (IF \E u \in RaceTasks \ {t} : rt_tasks[u].pc = "sorting"
                     THEN Arrangements(rt_handlers) ELSE {rt_handlers}) :
             rt_tasks' = [rt_tasks EXCEPT ![t].pc = "done",
                             ![t].result = FirstAccepting(hs, rt_tasks[t].req)]
       /\ UNCHANGED <<rt_handlers, rt_sorted, raceOthers>>

\* Detect returns to processRequest
RaceReturn ==
    \E t \in RaceTasks :
       /\ rt_tasks[t].pc = "done"
       /\ rt_tasks' = [rt_tasks EXCEPT ![t] = IdleTask]
       /\ UNCHANGED <<rt_handlers, rt_sorted, raceOthers>>

RaceNext ==
    \/ RaceDetectCall
    \/ RaceReadSorted
    \/ RaceSortSlice
    \/ RaceSetSorted
    \/ RaceLoop
    \/ RaceReturn

(***************************************************************************)
(* Specifications                                                          *)
(***************************************************************************)
\* a component that takes no part in a specification stays as it is here
StreamIdle ==
    /\ sp_text = <<>> /\ sp_pos = 0 /\ sp_buffer = <<>> /\ sp_accumulated = <<>>
    /\ sp_written = <<>> /\ sp_done = TRUE /\ sp_unparsable = 0

ProxyStreamIdle ==
    /\ ps_body = <<>> /\ ps_pos = 0 /\ ps_buffer = <<>> /\ ps_written = <<>>
    /\ ps_state = "idle"

ReplacerIdle ==
    /\ rp_text = <<>> /\ rp_result = NoResult /\ rp_restored = NoRestore
    /\ rp_state = "idle"

ServerIdle ==
    /\ sv_request = <<>> /\ sv_secrets = <<>> /\ sv_forwarded = <<>>
    /\ sv_state = "idle"

\* a store nothing has been stored in
StoreIdle == mappings = EmptyMap /\ secretIndex = EmptyMap /\ now = 0

ServiceIdle ==
    /\ se_requests = 0 /\ se_carried = {} /\ se_last = NoRequest
    /\ se_conns = [c \in Conns |-> IdleConn]

StoreCallsIdle ==
    /\ st_call = NoCall /\ st_lastAccess = EmptyMap
    /\ st_threads = [t \in Threads |-> IdleThread]

DetectIdle ==
    /\ dt_text = <<>> /\ dt_registered = <<>> /\ dt_on = {}
    /\ dt_secrets = <<>> /\ dt_again = <<>>
    /\ dt_state = "idle"

RedisIdle ==
    /\ rd_forward = EmptyMap /\ rd_reverse = EmptyMap /\ rd_now = 0
    /\ rd_call = NoRedisCall

GeneratorIdle ==
    /\ pg_generator = NewGenerator(<<>>, <<>>) /\ pg_secret = <<>>
    /\ pg_generated = <<>> /\ pg_found = <<>>

RestorerIdle ==
    /\ rs_text = <<>> /\ rs_table = EmptyMap /\ rs_once = NoRestore /\ rs_plain = <<>>
    /\ rs_twice = NoRestore /\ rs_plainTwice = <<>> /\ rs_state = "idle"

BuffersIdle ==
    /\ bf_stream = <<>> /\ bf_streamPc = "idle" /\ bf_local = <<>> /\ bf_localPc = "idle"

TlsIdle ==
    /\ tl_requests = <<>> /\ tl_k = 0 /\ tl_pc = "idle" /\ tl_last = NoProcessed
    /\ tl_pipe = NoPipe /\ tl_log = <<>>

RegistryIdle == rg_handlers = <<>> /\ rg_sorted = FALSE /\ rg_last = NoDetect

CertsIdle ==
    cm_cache = EmptyMap /\ cm_threads = <<>> /\ cm_serial = 0 /\ cm_returned = <<>>

MemoryIdle ==
    /\ ms_channel = "open" /\ ms_loop = "idle" /\ ms_callers = <<>>
    /\ ms_last = NoMemoryCall /\ ms_log = <<>>

ShutdownIdle ==
    /\ sh_listener = "idle" /\ sh_conns = <<>> /\ sh_stop = "idle"
    /\ sh_store = "open" /\ sh_log = <<>>

OpenAIIdle ==
    /\ oa_request = <<>> /\ oa_msg = <<>> /\ oa_modified = FALSE /\ oa_out = <<>>
    /\ oa_pc = "idle"

ResponseIdle == jr_response = <<>> /\ jr_result = <<>> /\ jr_pc = "idle"

RaceIdle == rt_handlers = <<>> /\ rt_sorted = FALSE /\ rt_tasks = <<>>

BytesIdle ==
    /\ sb_buffer = <<>> /\ sb_written = <<>> /\ sb_returned = <<>>
    /\ sb_last = <<>>

\* the components of the handler sections are idle
CodecIdle == OpenAIIdle /\ ResponseIdle /\ RaceIdle /\ BytesIdle

\* the components of the engine are idle
EngineIdle == RegistryIdle /\ CertsIdle /\ MemoryIdle /\ ShutdownIdle

\* the components of the pipeline sections are idle
PipelineIdle ==
    /\ DetectIdle /\ RedisIdle /\ GeneratorIdle /\ RestorerIdle /\ BuffersIdle
    /\ TlsIdle

\* the components of the later sections are idle
LaterIdle == PipelineIdle /\ EngineIdle /\ CodecIdle

\* the components of the earlier sections are idle
EarlierIdle ==
    /\ StoreIdle /\ StreamIdle /\ ProxyStreamIdle /\ ReplacerIdle /\ ServerIdle
    /\ StoreCallsIdle /\ ServiceIdle

\* the stream processor fed one text, chunk by chunk
InitStream ==
    /\ StreamInit /\ ProxyStreamIdle /\ ReplacerIdle /\ ServerIdle
    /\ StoreCallsIdle /\ ServiceIdle
    /\ LaterIdle
SpecStream == InitStream /\ [][StreamNext]_vars

\* the streaming branch of the proxy engine on one upstream body
InitProxyStream ==
    /\ ProxyStreamInit /\ StreamIdle /\ ReplacerIdle /\ ServerIdle
    /\ StoreCallsIdle /\ ServiceIdle
    /\ LaterIdle
SpecProxyStream == InitProxyStream /\ [][ProxyStreamNext]_vars

\* Replace and RestoreWithMappings on one text
InitReplace ==
    /\ ReplacerInit /\ StoreIdle /\ StreamIdle /\ ProxyStreamIdle /\ ServerIdle
    /\ StoreCallsIdle /\ ServiceIdle
    /\ LaterIdle
SpecReplace == InitReplace /\ [][ReplacerNext]_vars

\* one request through the proxy engine
InitServer ==
    /\ ServerInit /\ StreamIdle /\ ProxyStreamIdle /\ ReplacerIdle
    /\ StoreCallsIdle /\ ServiceIdle
    /\ LaterIdle
SpecServer == InitServer /\ [][ServerNext]_vars

\* calls on one store, one at a time, while time passes
InitStoreCalls ==
    /\ StoreCallsInit /\ st_threads = [t \in Threads |-> IdleThread]
    /\ StreamIdle /\ ProxyStreamIdle /\ ReplacerIdle /\ ServerIdle /\ ServiceIdle
    /\ LaterIdle
SpecStoreCalls == InitStoreCalls /\ [][StoreCallsNext]_vars

\* goroutines calling one store while cleanupLoop sweeps and time passes
InitStoreThreads ==
    /\ StoreThreadsInit /\ st_call = NoCall /\ st_lastAccess = EmptyMap
    /\ StreamIdle /\ ProxyStreamIdle /\ ReplacerIdle /\ ServerIdle /\ ServiceIdle
    /\ LaterIdle
SpecStoreThreads == InitStoreThreads /\ [][StoreThreadsNext]_vars

\* requests through one service, one at a time, while the store is swept
\* and time passes
InitService ==
    /\ ServiceInit /\ se_conns = [c \in Conns |-> IdleConn]
    /\ StoreCallsIdle
    /\ StreamIdle /\ ProxyStreamIdle /\ ReplacerIdle /\ ServerIdle
    /\ LaterIdle
SpecService == InitService /\ [][ServiceNext]_vars

\* two connections, each with one request through the service
InitConns ==
    /\ ConnsInit /\ se_requests = 0 /\ se_carried = {} /\ se_last = NoRequest
    /\ StoreCallsIdle
    /\ StreamIdle /\ ProxyStreamIdle /\ ReplacerIdle /\ ServerIdle
    /\ LaterIdle
SpecConns == InitConns /\ [][ConnsNext]_vars

\* DetectAll on one text with the enabled interceptors of one manager
InitDetect ==
    /\ DetectInit /\ EarlierIdle /\ RedisIdle /\ GeneratorIdle /\ RestorerIdle /\ BuffersIdle
    /\ EngineIdle /\ CodecIdle
    /\ TlsIdle
SpecDetect == InitDetect /\ [][DetectNext]_vars

\* calls on one RedisStore, one at a time, while time passes
InitRedis ==
    /\ RedisInit /\ EarlierIdle /\ DetectIdle /\ GeneratorIdle /\ RestorerIdle /\ BuffersIdle
    /\ EngineIdle /\ CodecIdle
    /\ TlsIdle
SpecRedis == InitRedis /\ [][RedisNext]_vars

\* Generate called twice on one secret by generators of any prefix and suffix
InitGenerator ==
    /\ GeneratorInit /\ EarlierIdle /\ DetectIdle /\ RedisIdle /\ RestorerIdle /\ BuffersIdle
    /\ EngineIdle /\ CodecIdle
    /\ TlsIdle
SpecGenerator == InitGenerator /\ [][GeneratorNext]_vars

\* the two restorers on one text, and again on what they returned
InitRestorer ==
    /\ RestorerInit /\ EarlierIdle /\ DetectIdle /\ RedisIdle /\ GeneratorIdle /\ BuffersIdle
    /\ EngineIdle /\ CodecIdle
    /\ TlsIdle
SpecRestorer == InitRestorer /\ [][RestorerNext]_vars

\* the two buffers of a stream, fed deltas and lines of any length
InitBuffers ==
    /\ BuffersInit /\ EarlierIdle /\ DetectIdle /\ RedisIdle /\ GeneratorIdle
    /\ RestorerIdle /\ TlsIdle
    /\ EngineIdle /\ CodecIdle
SpecBuffers == InitBuffers /\ [][BuffersNext]_vars

\* the requests of one intercepted connection through the proxy engine
InitTls ==
    /\ TlsInit /\ StreamIdle /\ ProxyStreamIdle /\ ReplacerIdle /\ ServerIdle
    /\ StoreCallsIdle /\ ServiceIdle
    /\ DetectIdle /\ RedisIdle /\ GeneratorIdle /\ RestorerIdle /\ BuffersIdle
    /\ EngineIdle /\ CodecIdle
SpecTls == InitTls /\ [][TlsNext]_vars

\* the callers of a Registry
InitRegistry ==
    /\ RegistryInit /\ EarlierIdle /\ PipelineIdle
    /\ CertsIdle /\ MemoryIdle /\ ShutdownIdle /\ CodecIdle
SpecRegistry == InitRegistry /\ [][RegistryNext]_vars

\* the handshakes calling one CertManager
InitCerts ==
    /\ CertsInit /\ EarlierIdle /\ PipelineIdle
    /\ RegistryIdle /\ MemoryIdle /\ ShutdownIdle /\ CodecIdle
SpecCerts == InitCerts /\ [][CertsNext]_vars

\* a MemoryStore, its sweeper and its callers
InitMemory ==
    /\ MemoryInit /\ StreamIdle /\ ProxyStreamIdle /\ ReplacerIdle /\ ServerIdle
    /\ StoreCallsIdle /\ ServiceIdle /\ PipelineIdle
    /\ RegistryIdle /\ CertsIdle /\ ShutdownIdle /\ CodecIdle
SpecMemory == InitMemory /\ [][MemoryNext]_vars

\* the same, with a select that takes the case of the closed channel in
\* the end: the channel stays ready once it is closed
SpecMemoryFair == SpecMemory /\ WF_vars(CleanupLoopReturn)

\* the engine from Start to Stop
InitShutdown ==
    /\ ShutdownInit /\ EarlierIdle /\ PipelineIdle
    /\ RegistryIdle /\ CertsIdle /\ MemoryIdle /\ CodecIdle
SpecShutdown == InitShutdown /\ [][ShutdownNext]_vars

\* processRequest on a request with structured contents
InitOpenAI ==
    /\ OpenAIInit /\ StreamIdle /\ ProxyStreamIdle /\ ReplacerIdle /\ ServerIdle
    /\ StoreCallsIdle /\ ServiceIdle /\ PipelineIdle /\ EngineIdle
    /\ ResponseIdle /\ RaceIdle /\ BytesIdle
SpecOpenAI == InitOpenAI /\ [][OpenAINext]_vars

\* processResponse on one upstream response
InitResponse ==
    /\ ResponseInit /\ StreamIdle /\ ProxyStreamIdle /\ ReplacerIdle /\ ServerIdle
    /\ StoreCallsIdle /\ ServiceIdle /\ PipelineIdle /\ EngineIdle
    /\ OpenAIIdle /\ RaceIdle /\ BytesIdle
SpecResponse == InitResponse /\ [][ResponseNext]_vars

\* a StreamBuffer under any sequence of Write, Flush and FlushAll
InitStreamBuffer ==
    /\ StreamBufferInit /\ EarlierIdle /\ PipelineIdle /\ EngineIdle
    /\ OpenAIIdle /\ ResponseIdle /\ RaceIdle
SpecStreamBuffer == InitStreamBuffer /\ [][StreamBufferNext]_vars

\* the connection tasks calling Detect on the registry of the server
InitRace ==
    /\ RaceInit /\ EarlierIdle /\ PipelineIdle /\ EngineIdle
    /\ OpenAIIdle /\ ResponseIdle /\ BytesIdle
SpecRace == InitRace /\ [][RaceNext]_vars

(***************************************************************************)
(* Claims                                                                  *)
(***************************************************************************)
\* C1: once the [DONE] chunk has been processed, the deltas written to the
\* client, concatenated, are the whole-text restoration of the streamed
\* text: Restore(t, store.Lookup).Text, for every split of t into deltas.
C1_StreamingEquivalence ==
    sp_done => ConcatDeltas(sp_written) = Restore(sp_text, LookupTable(mappings)).Text

\* C2: when the streamed body has been read to its end, every placeholder
\* with a mapping that the body contains has been replaced by its secret
\* in the bytes written to the client, and does not appear in them, whole
\* or in pieces written separately.
C2_NoPlaceholderReachesClient ==
    ps_state = "eof" =>
        \A p \in DOMAIN mappings :
            Contains(ps_body, p) =>
                /\ Contains(ConcatAll(ps_written), mappings[p].Secret)
                /\ ~Contains(ConcatAll(ps_written), p)

\* the bytes [i, i + len) of the input lie in no range that was replaced
Untouched(i, len, detected) ==
    \A n \in 1..Len(detected) :
        i + len <= detected[n].StartIndex \/ detected[n].EndIndex <= i

\* C3: after Replace(text), wherever the value of a finding of Detected
\* occurred in the input, it does not occur in the resulting text any more.
C3_NoDetectedValueRemains ==
    rp_state # "new" =>
        \A n \in 1..Len(rp_result.Detected) :
            LET v == rp_result.Detected[n].Value
            IN  \A i \in 0..Len(rp_text) :
                    (MatchAt(rp_text, i, v) /\ Untouched(i, Len(v), rp_result.Detected))
                        => ~MatchAt(rp_result.Text,
                                    NewOffset(i, rp_result.Detected, Len(rp_result.Detected)), v)

\* no detected secret is a substring of another secret's placeholder
NoSecretInsidePlaceholder(detected) ==
    \A m, n \in 1..Len(detected) :
        m # n => ~Contains(Generate(detected[n].Value), detected[m].Value)

\* C5 as stated: Replace and then RestoreWithMappings with the table of
\* that call give the text back, provided no detected secret is a substring
\* of another secret's placeholder.
C5_RoundTrip ==
    (rp_state = "restored" /\ NoSecretInsidePlaceholder(rp_result.Detected))
        => rp_restored.Text = rp_text

\* no two detected secrets have the same placeholder
NoSharedPlaceholder(detected) ==
    \A m, n \in 1..Len(detected) :
        Generate(detected[m].Value) = Generate(detected[n].Value)
            => detected[m].Value = detected[n].Value

\* the ranges of the replaced text where Replace put a placeholder
SplicedRanges(detected) ==
    {<<NewOffset(detected[n].StartIndex, detected, Len(detected)),
       NewOffset(detected[n].StartIndex, detected, Len(detected)) + maxLength>> :
        n \in 1..Len(detected)}

\* the placeholder pattern matches the replaced text exactly where Replace
\* put a placeholder
OnlySplicedPlaceholders(result) ==
    {FindAllIndex(result.Text)[n] : n \in 1..Len(FindAllIndex(result.Text))}
        = SplicedRanges(result.Detected)

\* C5, amended: Replace and then RestoreWithMappings with the table of that
\* call give the text back, provided no two detected secrets have the same
\* placeholder and the placeholder pattern matches the replaced text
\* exactly where Replace put a placeholder.
C5_RoundTripAmended ==
    (/\ rp_state = "restored"
     /\ NoSharedPlaceholder(rp_result.Detected)
     /\ OnlySplicedPlaceholders(rp_result))
        => rp_restored.Text = rp_text

\* C5 witness: a text with two secrets of different placeholders went
\* through Replace and RestoreWithMappings and came back
C5_Witness ==
    /\ rp_state = "restored"
    /\ Len(rp_result.Detected) >= 2
    /\ NoSharedPlaceholder(rp_result.Detected)
    /\ OnlySplicedPlaceholders(rp_result)
    /\ rp_restored.RestoredCount = 2
    /\ rp_restored.Text = rp_text

\* the content with each range [StartIndex, EndIndex) of secrets[n..]
\* replaced by the placeholder of its value, and the bytes from pos on that
\* lie outside the ranges kept in order
RECURSIVE SplicedContent(_, _, _, _)
SplicedContent(content, secrets, n, pos) ==
    IF n > Len(secrets) THEN Slice(content, pos, Len(content))
    ELSE Slice(content, pos, secrets[n].StartIndex) \o Generate(secrets[n].Value)
         \o SplicedContent(content, secrets, n + 1, secrets[n].EndIndex)

\* C4: Server.processRequest forwards, for every message with findings, the
\* original content with exactly each range [start_i, end_i) replaced by
\* generate(value_i) and all other bytes kept in order; no splice uses an
\* offset that is stale or out of range.
C4_SplicesAtOriginalOffsets ==
    sv_state \in {"forwarded", "panic"} =>
        /\ sv_state = "forwarded"
        /\ \A i \in 1..Len(sv_request) :
              Len(sv_secrets[i]) >= 1 =>
                  sv_forwarded[i] = SplicedContent(sv_request[i], sv_secrets[i], 1, 0)

\* C6: the forward and the reverse index of the store agree in both
\* directions: secretIndex[s] = p if and only if mappings[p] exists and
\* mappings[p].Secret = s.
C6_IndicesAgree ==
    \A x \in StoreSecrets, p \in StorePlaceholders :
        (x \in DOMAIN secretIndex /\ secretIndex[x] = p)
            <=> (p \in DOMAIN mappings /\ mappings[p].Secret = x)

\* C7: a Lookup or LookupBySecret that no Store overlapped and that
\* returned found = true left, as it returned, the mapping in the store
\* with LastUsed set to the time of the return, whatever Cleanup did
\* between its read and its refresh.
C7_LookupHitSurvivesCleanup ==
    \A t \in Threads :
        (/\ st_threads[t].pc = "idle"
         /\ st_threads[t].op \in {"Lookup", "LookupBySecret"}
         /\ st_threads[t].found
         /\ ~st_threads[t].overwritten)
            => (st_threads[t].present /\ st_threads[t].refreshed)

\* C8: a Cleanup removes exactly the entries whose latest Store, Lookup
\* hit, LookupBySecret hit or Touch lies more than ttl back: such an entry
\* is gone from mappings and its secret from secretIndex, and every other
\* entry stays as it was.
C8_CleanupEvictsExactlyExpired ==
    [][(st_call'.op = "Cleanup" /\ now' = now) =>
          /\ DOMAIN mappings' \subseteq DOMAIN mappings
          /\ \A p \in DOMAIN mappings :
                IF now - st_lastAccess[p] > ttl
                THEN /\ p \notin DOMAIN mappings'
                     /\ mappings[p].Secret \notin DOMAIN secretIndex'
                ELSE /\ p \in DOMAIN mappings'
                     /\ mappings'[p] = mappings[p]]_vars

\* C8 witness: a Cleanup has evicted an entry and left another, which an
\* access had kept fresh, in the store
C8_Witness ==
    /\ st_call.op = "Cleanup"
    /\ st_call.evicted # {}
    /\ \E p \in DOMAIN mappings :
          /\ mappings[p].LastUsed > mappings[p].CreatedAt
          /\ now - mappings[p].CreatedAt > ttl

\* C9: each secret has one canonical placeholder: every body in which a
\* secret was replaced carries the same placeholder for it, the store holds
\* at most one forward mapping per secret, and a request all of whose
\* secrets were stored already leaves Size() as it was.
C9_SingleCanonicalPlaceholder ==
    /\ \A c, d \in se_carried : c[1] = d[1] => c[2] = d[2]
    /\ \A x \in StoredSecrets(TheStore) :
          Cardinality({p \in DOMAIN mappings : mappings[p].Secret = x}) <= 1
    /\ (se_last.replaced # {} /\ se_last.replaced \subseteq se_last.storedBefore)
          => se_last.sizeAfter = se_last.sizeBefore

\* C9 witness: a request all of whose secrets were stored already has been
\* processed again after an earlier one, and two secrets have been replaced
C9_Witness ==
    /\ se_requests >= 2
    /\ se_last.replaced # {}
    /\ se_last.replaced \subseteq se_last.storedBefore
    /\ se_last.sizeBefore >= 1
    /\ se_last.sizeAfter = se_last.sizeBefore
    /\ Cardinality(se_carried) >= 2

C11_SortedDisjointDistinct ==
    dt_state = "detected" =>
        /\ \A i \in 1..(Len(dt_secrets) - 1) :
              /\ dt_secrets[i].StartIndex <= dt_secrets[i + 1].StartIndex
              /\ dt_secrets[i + 1].StartIndex >= dt_secrets[i].EndIndex
        /\ \A i, j \in 1..Len(dt_secrets) :
              i # j => dt_secrets[i].Value # dt_secrets[j].Value

\* C11 witness: both interceptors are enabled, the findings they made
\* overlap, and DetectAll returned two of them
C11_Witness ==
    /\ dt_state = "detected"
    /\ dt_on = {"entropy", "pattern"}
    /\ Len(dt_secrets) = 2
    /\ LET all == allSecrets(dt_registered, dt_text, 1)
       IN  /\ Len(all) > 2
           /\ \E i, j \in 1..Len(all) :
                 /\ all[i].Value # all[j].Value
                 /\ all[i].StartIndex < all[j].EndIndex
                 /\ all[j].StartIndex < all[i].EndIndex

\* C14: in RedisStore the forward key of a mapping (p, s) is there if and
\* only if its reverse key is there, and both expire at the same time; so
\* a hit of LookupBySecret(s) with p means Lookup(p) hits with s.
C14_KeysExpireTogether ==
    /\ \A p \in DOMAIN rd_forward :
          RedisLive(rd_forward, p, rd_now) =>
             /\ RedisLive(rd_reverse, rd_forward[p].value, rd_now)
             /\ rd_reverse[rd_forward[p].value].value = p
             /\ rd_reverse[rd_forward[p].value].expireAt = rd_forward[p].expireAt
    /\ \A x \in DOMAIN rd_reverse :
          RedisLive(rd_reverse, x, rd_now) =>
             /\ RedisLive(rd_forward, rd_reverse[x].value, rd_now)
             /\ rd_forward[rd_reverse[x].value].value = x
             /\ rd_forward[rd_reverse[x].value].expireAt = rd_reverse[x].expireAt

\* C16: for every secret and every generator, the calls of Generate on the
\* secret return the same string, IsPlaceholder holds of it, FindAll of it
\* returns that one string, and its length is MaxLength(), the lengths of
\* prefix and suffix and the hashLen hex digits.
C16_PlaceholderShape ==
    \A n \in 1..Len(pg_generated) :
       /\ pg_generated[n] = pg_generated[1]
       /\ IsPlaceholderOf(pg_generator, pg_generated[n])
       /\ pg_found = <<pg_generated[n]>>
       /\ Len(pg_generated[n]) = pg_generator.maxLength
       /\ pg_generator.maxLength
             = Len(pg_generator.prefix) + hashLen + Len(pg_generator.suffix)

\* C16 witness: Generate was called twice, by a generator whose prefix ends
\* in a hex digit and whose suffix is not empty
C16_Witness ==
    /\ Len(pg_generated) = 2
    /\ pg_secret # <<>>
    /\ Len(pg_generator.prefix) = 2 /\ pg_generator.prefix[2] \in HexChars
    /\ pg_generator.suffix # <<>>

\* the placeholders of a text that hit in a lookup table
Hits(text, table) == {n \in 1..Len(FindAll(text)) : FindAll(text)[n] \in DOMAIN table}

\* C17: Restore(text, lookup).Text is RestorePlaceholders(text, lookup),
\* RestoredCount counts the placeholders of the text that hit, NotFoundCount
\* those that miss, and a text none of whose placeholders hits is returned
\* as it is.
C17_RestoreEqualsRestorePlaceholders ==
    rs_state \in {"restored", "again"} =>
        /\ rs_once.Text = rs_plain
        /\ rs_once.RestoredCount = Cardinality(Hits(rs_text, rs_table))
        /\ rs_once.RestoredCount + rs_once.NotFoundCount = Len(FindAll(rs_text))
        /\ (Hits(rs_text, rs_table) = {} => rs_once.Text = rs_text)

\* C17 witness: a text with two placeholders or more, one of them at least
\* restored, and every secret of another length than a placeholder
C17_Witness ==
    /\ rs_state = "restored"
    /\ Len(FindAll(rs_text)) >= 2
    /\ rs_once.RestoredCount >= 1
    /\ \A p \in DOMAIN rs_table : Len(rs_table[p]) # maxLength

\* C18 (as stated): restoring what a restorer returned, with the same
\* lookup table, returns it as it is, for Restore and for RestorePlaceholders.
C18_RestoreIdempotent ==
    rs_state = "again" =>
        /\ rs_twice.Text = rs_once.Text
        /\ rs_plainTwice = rs_plain

\* C18 (amended): the same, for the texts whose restoration holds no
\* placeholder that hits in the lookup table.
C18_RestoreIdempotentAmended ==
    (rs_state = "again" /\ Hits(rs_once.Text, rs_table) = {}
                        /\ Hits(rs_plain, rs_table) = {}) =>
        /\ rs_twice.Text = rs_once.Text
        /\ rs_plainTwice = rs_plain

\* C18 witness: a placeholder was restored, what was returned still holds
\* a placeholder, which misses, and the second restoration has been made
C18_Witness ==
    /\ rs_state = "again"
    /\ rs_once.RestoredCount >= 1
    /\ FindAll(rs_once.Text) # <<>>
    /\ Hits(rs_once.Text, rs_table) = {}
    /\ Hits(rs_plain, rs_table) = {}

\* C19: at every point of the processing of a stream neither the
\* StreamBuffer nor the buffer of processStreamingResponse holds more than
\* 2 x MaxLength() bytes.
C19_BufferBounded ==
    /\ Len(bf_stream) <= 2 * maxLength
    /\ Len(bf_local) <= 2 * maxLength

\* C12: when no registered handler accepts a request, processRequest
\* forwards the body as it was received, runs no detector and makes no
\* Store call: the mapping store and its size are as before.
C12_NoHandlerPassthrough ==
    [][(tl_pc = "process" /\ tl_pc' # "process"
          /\ RegistryDetect(tl_requests[tl_k]) = "none")
       => /\ tl_pc' = "upstream"
          /\ tl_last'.forwarded
          /\ tl_last'.sent = tl_requests[tl_k].body
          /\ ~tl_last'.errorResponse
          /\ tl_last'.detectorRuns = 0
          /\ tl_last'.storeCalls = 0
          /\ mappings' = mappings
          /\ secretIndex' = secretIndex
          /\ Cardinality(DOMAIN mappings') = Cardinality(DOMAIN mappings)]_vars

\* a request with a body that no handler accepts has been forwarded, on a
\* connection whose earlier request left a mapping in the store
C12_Witness ==
    /\ tl_last.kind = "nohandler"
    /\ tl_pc = "upstream"
    /\ tl_k = 2
    /\ Len(tl_last.body) > 0
    /\ mappings # EmptyMap

\* C13: when a handler matches and ParseRequest fails, the request that
\* is forwarded carries the body as it was received, no mapping is stored
\* and the client gets no error response.
C13_ParseFailurePassthrough ==
    tl_last.kind = "parseerror"
        => /\ tl_last.forwarded
           /\ tl_last.sent = tl_last.body
           /\ ~tl_last.errorResponse
           /\ tl_last.storeAfter = tl_last.storeBefore

\* C15: a Store error for a finding changes nothing of what processRequest
\* does with the request: the same findings are replaced in the same
\* messages as when every Store succeeds, the request is serialized with
\* them and forwarded, and no error response is written for it.
C15_StoreErrorContinues ==
    (tl_last.kind \in {"forwarded", "panic"} /\ tl_last.failing # {})
        => LET r0 == messageLoop(tl_last.contents, tl_last.secrets, 1, <<>>,
                                 tl_last.storeBefore, now, {})
           IN  /\ r0.panic <=> tl_last.kind = "panic"
               /\ tl_last.kind = "forwarded"
                     => /\ tl_last.forwarded
                        /\ tl_last.sent = SerializeRequest(r0.contents)
                        /\ ~tl_last.errorResponse
                        /\ \A i \in 1..Len(tl_last.contents) :
                              Len(tl_last.secrets[i]) > 0
                                 => r0.contents[i] # tl_last.contents[i]

\* a request with a finding in each of two messages has been forwarded
\* when Store failed for the first finding: both are replaced
C15_Witness ==
    /\ tl_last.kind = "forwarded"
    /\ Len(tl_last.contents) = 2
    /\ Len(tl_last.secrets[1]) = 1 /\ Len(tl_last.secrets[2]) = 1
    /\ tl_last.failing = {tl_last.secrets[1][1].Value}
    /\ tl_last.sent = SerializeRequest(<<Generate(tl_last.secrets[1][1].Value),
                                         Generate(tl_last.secrets[2][1].Value)>>)

\* the position of the first event of a log that is the given one, or 0
FirstAt(log, event) ==
    IF \E n \in 1..Len(log) : log[n] = event
    THEN CHOOSE n \in 1..Len(log) :
            log[n] = event /\ \A m \in 1..(n - 1) : log[m] # event
    ELSE 0

\* C20: on one intercepted connection request k+1 is read only after
\* response k has been written to its end, every part of a streamed body
\* included, and the responses are written in the order of their requests.
C20_PairsInOrder ==
    /\ \A n \in 1..Len(tl_log) :
          (tl_log[n][1] = "read" /\ tl_log[n][2] > 1)
             => /\ \E m \in 1..(n - 1) : tl_log[m] = <<"end", tl_log[n][2] - 1>>
                /\ \A m \in n..Len(tl_log) :
                      ~(tl_log[m][1] \in {"write", "end"}
                          /\ tl_log[m][2] < tl_log[n][2])
    /\ \A n, m \in 1..Len(tl_log) :
          (n < m /\ tl_log[n][1] \in {"write", "end"}
                 /\ tl_log[m][1] \in {"write", "end"})
             => tl_log[n][2] <= tl_log[m][2]
    /\ (\E n \in 1..Len(tl_log) : tl_log[n] = <<"end", tl_k>>)
          => \/ tl_pipe = NoPipe
             \/ tl_pipe.left = 0 /\ ~tl_pipe.full /\ tl_pipe.closed

\* the second request of a connection has been read after a first
\* response that was streamed in two parts
C20_Witness ==
    /\ Len(tl_log) >= 5
    /\ SubSeq(tl_log, 1, 5) = << <<"read", 1>>, <<"write", 1>>, <<"write", 1>>,
                                 <<"end", 1>>, <<"read", 2>> >>

\* C29: Detect returns a registered handler that accepts the request and
\* no registered handler of a strictly higher priority accepts it; it
\* returns none exactly when no registered handler accepts the request.
\* The handlers registered are those of the slice before the call, in
\* whatever order they were registered, before or after earlier Detects.
C29_DetectHighestPriority ==
    rg_last.req # "none"
        => LET registered == HandlersOf(rg_last.before)
               accepting  == {h \in registered : rg_last.req \in h.accepts}
           IN  /\ HandlersOf(rg_last.handlers) = registered
               /\ rg_last.result = "none" <=> accepting = {}
               /\ rg_last.result # "none"
                     => \E h \in accepting :
                           /\ h.name = rg_last.result
                           /\ \A g \in accepting : g.priority <= h.priority

\* a Detect after an earlier Detect has returned a handler that was
\* registered in between, behind an accepting handler of lower priority
C29_Witness ==
    /\ rg_last.again
    /\ Len(rg_last.before) = 2
    /\ rg_last.req \in rg_last.before[1].accepts
    /\ rg_last.req \in rg_last.before[2].accepts
    /\ rg_last.before[1].priority < rg_last.before[2].priority
    /\ rg_last.result = rg_last.before[2].name
    /\ rg_sorted

\* C25: every GetCertificate call for a hostname returns the same
\* certificate object, the one the cache holds for the hostname, and an
\* entry of the cache is never removed or replaced.
C25_SameCachedCertificate ==
    /\ \A i, j \in 1..Len(cm_returned) :
          (cm_returned[i][1] = cm_returned[j][1]
              /\ cm_returned[i][2] # 0 /\ cm_returned[j][2] # 0)
             => cm_returned[i][2] = cm_returned[j][2]
    /\ \A i \in 1..Len(cm_returned) :
          cm_returned[i][2] # 0
             => /\ cm_returned[i][1] \in DOMAIN cm_cache
                /\ cm_cache[cm_returned[i][1]] = cm_returned[i][2]

\* C22: once Close has been called the goroutine of cleanupLoop returns in
\* the end, and it makes no Cleanup after it has returned.
C22_SweepTerminates ==
    /\ (ms_channel = "closed") ~> (ms_loop = "returned")
    /\ [](\A n \in 1..Len(ms_log) :
             ms_log[n] = "return" => n = Len(ms_log) /\ ms_loop = "returned")
    /\ [][ms_loop = "returned" => (mappings' = mappings \/ ms_last' # ms_last)]_vars

\* the goroutine has returned after a sweep it made when the channel was
\* already closed
C22_Witness ==
    /\ ms_loop = "returned"
    /\ ms_log = <<"cleanup", "return">>
    /\ ms_callers[1] = "returned"
    /\ mappings = EmptyMap
    /\ ms_last.op = "Store" /\ ms_last.closed

\* C23: every call of Close completes without a panic, however many there
\* are, and the store is closed as after one call.
C23_CloseIdempotent ==
    /\ \A c \in CloseCallers : ms_callers[c] # "panic"
    /\ (\E c \in CloseCallers : ms_callers[c] # "ready") => ms_channel = "closed"

\* C24: after Close has returned, Store and Touch return an error, the
\* lookups find nothing, and none of them changes the mappings.
C24_CallsFailAfterClose ==
    ms_last.closed
        => /\ ms_last.op \in {"Store", "Touch"} => ms_last.err
           /\ ms_last.op \in {"Lookup", "LookupBySecret"} => ~ms_last.found
           /\ ms_last.after = ms_last.before

\* C21: once Stop has been called no connection is accepted; when Stop has
\* returned every connection is closed and no connection task serves a
\* request afterwards; the store is closed only when every connection task
\* has ended.
C21_ConnectionsClosedByStop ==
    /\ sh_stop # "running" => sh_listener = "closed"
    /\ sh_stop \in {"returned", "failed"}
          => \A c \in ShutdownConns : sh_conns[c].state \in {"none", "closed"}
    /\ \A n, m \in 1..Len(sh_log) :
          (n < m /\ sh_log[n][1] \in {"returned", "storeclose"})
             => sh_log[m][1] \notin {"tunnel", "http"}
    /\ sh_store = "closed"
          => \A c \in ShutdownConns : sh_conns[c].state \in {"none", "closed"}


\* the events of a connection's log that belong to request k and are
\* written to the client: response writes, ends and error responses
ClientEvents(log, k) ==
    {n \in 1..Len(log) : log[n][2] = k /\ log[n][1] # "read"}

\* C26: when the round trip of a request fails, the client is sent one
\* response, the 502 of sendErrorResponse with Content-Type text/plain,
\* nothing of an upstream response is written for that request, the
\* connection is closed with the next request unread, and the step that
\* reports the failure changes neither the store nor any other component.
C26_RoundTripFailure ==
    /\ [](tl_last.roundTrip = "error"
            => /\ tl_pc = "closed"
               /\ ClientEvents(tl_log, tl_k) = {Len(tl_log)}
               /\ tl_log[Len(tl_log)] = <<"error", tl_k,
                      [StatusCode |-> 502, ContentType |-> "text/plain"]>>
               /\ \A n \in 1..Len(tl_log) : tl_log[n][2] <= tl_k)
    /\ [][(tl_last'.roundTrip = "error" /\ tl_last.roundTrip # "error")
            => /\ UNCHANGED <<mappings, secretIndex>>
               /\ UNCHANGED tlsOthers]_vars

\* the round trip of the first of two requests has failed after a mapping
\* of that request was stored: the second request stays unread
C26_Witness ==
    /\ tl_last.roundTrip = "error"
    /\ tl_last.kind = "forwarded"
    /\ tl_k = 1 /\ Len(tl_requests) = 2
    /\ tl_pc = "closed"
    /\ mappings # EmptyMap

\* C27: a forwarded request whose one message is a GitHub token has a
\* finding of source "pattern" and type "token", which is the one that is
\* replaced and counted (RecordSecretDetected is called with the Source and
\* the Type of each finding), and the store grows by exactly one mapping.
C27_TokenFoundByPattern ==
    (tl_last.kind = "forwarded" /\ tl_last.contents = <<GithubTokenText>>)
        => /\ \E n \in 1..Len(tl_last.secrets[1]) :
                 /\ tl_last.secrets[1][n].Source = "pattern"
                 /\ tl_last.secrets[1][n].Type = "token"
           /\ tl_last.storeCalls = 1
           /\ Cardinality(DOMAIN tl_last.storeAfter.mappings)
                 = Cardinality(DOMAIN tl_last.storeBefore.mappings) + 1

C30_StoreOnlyAfterMiss ==
    tl_last.kind = "forwarded"
        => tl_last.storeCalls
              <= Cardinality(FoundValues(tl_last.secrets)
                                \ DOMAIN tl_last.storeBefore.secretIndex)


\* C31: deduplicateSecrets is a function of its input: two calls of
\* DetectAll on the same text with the same interceptors return the same
\* slice.
C31_DeduplicateDeterministic ==
    dt_state = "again" => dt_again = dt_secrets


\* C35: every finding DetectAll returns has offsets inside the text,
\* 0 <= StartIndex < EndIndex <= len(text), its Value is the text between
\* them, and its Source is the name of a registered interceptor that is
\* enabled and whose Detect made that finding.
C35_ValidOffsetsAndSource ==
    dt_state \in {"detected", "again"} =>
        \A n \in 1..Len(dt_secrets) :
           LET f == dt_secrets[n]
           IN  /\ 0 <= f.StartIndex
               /\ f.StartIndex < f.EndIndex
               /\ f.EndIndex <= Len(dt_text)
               /\ SubSeq(dt_text, f.StartIndex + 1, f.EndIndex) = f.Value
               /\ f.Source \in dt_on
               /\ \E k \in 1..Len(dt_registered) : dt_registered[k] = f.Source
               /\ LET made == DetectOf(f.Source, dt_text)
                  IN  \E k \in 1..Len(made) : [made[k] EXCEPT !.Source = f.Source] = f

\* the pattern interceptor is registered and disabled, the text holds a
\* match of one of its rules, and DetectAll returned a finding of the
\* entropy interceptor that does not begin at the start of the text
C35_Witness ==
    /\ dt_state = "detected"
    /\ dt_on = {"entropy"}
    /\ Len(PatternDetect(dt_text)) > 0
    /\ Len(dt_secrets) = 1
    /\ dt_secrets[1].Source = "entropy"
    /\ dt_secrets[1].StartIndex > 0
    /\ dt_secrets[1].EndIndex < Len(dt_text)


\* the events of a slice of events that carry a delta
ChunkEvents(events) == SelectSeq(events, LAMBDA e : e.kind = "chunk")

\* C32: ProcessChunk of the done marker writes what the buffer holds,
\* restored, as one final delta and then the done marker, and leaves the
\* buffer empty; and every ProcessChunk appends to what was written before,
\* the delta it writes being the restoration of the head of the buffer
\* followed by the incoming delta, of which the rest stays buffered: the
\* content reaches the client in the order it was received.
C32_DoneFlushesInOrder ==
    [][LET incoming == SubSeq(sp_accumulated', Len(sp_accumulated) + 1,
                              Len(sp_accumulated'))
           held     == sp_buffer \o incoming
           new      == SubSeq(sp_written', Len(sp_written) + 1, Len(sp_written'))
       IN  /\ Len(sp_written') >= Len(sp_written)
           /\ SubSeq(sp_written', 1, Len(sp_written)) = sp_written
           /\ \E n \in 0..Len(held) :
                 /\ sp_buffer' = SubSeq(held, n + 1, Len(held))
                 /\ ChunkEvents(new)
                       = IF n = 0 THEN <<>>
                         ELSE <<ChunkEvent(processContent(SubSeq(held, 1, n)))>>
           /\ (sp_done' /\ ~sp_done)
                 => /\ sp_buffer' = <<>>
                    /\ new = (IF sp_buffer = <<>> THEN <<>>
                              ELSE <<ChunkEvent(processContent(sp_buffer))>>)
                             \o <<RawEvent("[DONE]")>>]_vars

\* the done marker has been written after a final delta in which a
\* placeholder was restored, and after an earlier delta
C32_Witness ==
    /\ sp_done
    /\ sp_buffer = <<>>
    /\ Len(sp_written) >= 3
    /\ sp_written[Len(sp_written)] = RawEvent("[DONE]")
    /\ sp_written[Len(sp_written) - 1].kind = "chunk"
    /\ \E n \in 1..Len(sp_written[Len(sp_written) - 1].Delta) :
          sp_written[Len(sp_written) - 1].Delta[n] = "b"
    /\ \E n \in 1..(Len(sp_written) - 2) : sp_written[n].kind = "chunk"


\* C33: the request SerializeRequest writes has every top-level field of
\* the request that was received, every message with its role and its
\* other fields, and every message the replacer did not modify with the
\* content it had, a string as that string and a list of parts as that
\* list.
C33_SerializeKeepsStructure ==
    oa_pc = "serialized" =>
        /\ oa_out.model = oa_request.model
        /\ oa_out.unknown = oa_request.unknown
        /\ Len(oa_out.messages) = Len(oa_request.messages)
        /\ \A i \in 1..Len(oa_request.messages) :
              /\ oa_out.messages[i].role = oa_request.messages[i].role
              /\ oa_out.messages[i].name = oa_request.messages[i].name
              /\ oa_out.messages[i].unknown = oa_request.messages[i].unknown
              /\ oa_msg.Messages[i].Content
                    = getContentString(oa_request.messages[i].content)
                    => oa_out.messages[i].content = oa_request.messages[i].content

\* C39: when a handler matches, parsing succeeds and no message has a
\* finding, SerializeRequest is not called: the request that is forwarded
\* is the one that was received, byte for byte, and processing it leaves
\* the store as it was.
C39_NoFindingForwardsBody ==
    /\ []((/\ oa_pc \in {"serialized", "forwarded"}
           /\ \A i \in 1..Len(oa_request.messages) :
                 DetectAll(ServerInterceptors,
                           getContentString(oa_request.messages[i].content)) = {<<>>})
             => /\ oa_pc = "forwarded"
                /\ oa_out = oa_request)
    /\ [][(oa_pc = "parsed" /\ oa_pc' = "processed" /\ ~oa_modified')
             => UNCHANGED <<mappings, secretIndex>>]_vars

\* a request of two messages without a finding, one of them a list of
\* parts with a part that is not text, whose bytes are not the ones
\* json.Marshal writes, has been forwarded while the store holds a mapping
C39_Witness ==
    /\ oa_pc = "forwarded"
    /\ Len(oa_request.messages) = 2
    /\ oa_request.messages[2].content = PartsContent(<<TextPart(PlainText), ImagePart>>)
    /\ ~oa_request.compact
    /\ oa_request.unknown
    /\ mappings # EmptyMap
    /\ oa_out = oa_request


\* C34: a response whose Content-Type is none of the three stream types
\* and whose body has been read is returned with the body
\* RestorePlaceholders(upstream body, store.Lookup), and with ContentLength
\* and the Content-Length header equal to the length of that body, whether
\* or not the request matched a handler.
C34_RestoredBodyAndLength ==
    (/\ jr_pc = "returned"
     /\ jr_response.contentType \notin {"text/event-stream", "application/x-ndjson",
                                        "application/stream+json"}
     /\ jr_result.kind # "error")
        => /\ jr_result.kind = "json"
           /\ jr_result.body
                 = RestorePlaceholders(jr_response.body, LookupTable(mappings))
           /\ jr_result.ContentLength = Len(jr_result.body)
           /\ jr_result.header = Len(jr_result.body)

\* a response of a request that matched no handler, with a Content-Type
\* that only begins like a stream type, has been returned with a stored
\* placeholder restored to a secret of another length
C34_Witness ==
    /\ jr_pc = "returned"
    /\ jr_result.kind = "json"
    /\ ~jr_response.handler
    /\ jr_response.contentType = "text/event-stream; charset=utf-8"
    /\ jr_result.body # jr_response.body
    /\ Len(jr_result.body) # Len(jr_response.body)
    /\ Len(jr_response.body) > maxLength


\* C36: what Flush and FlushAll have returned, in order, followed by what
\* is buffered is what has been written, in order; Flush returns nil and
\* leaves the buffer alone when it holds at most maxLength bytes, and
\* otherwise returns all but the last maxLength bytes, which stay
\* buffered; FlushAll returns the buffer and leaves it empty.
C36_BufferConservesBytes ==
    /\ sb_returned \o sb_buffer = sb_written
    /\ sb_last.op = "Flush"
          => IF Len(sb_last.before) <= maxLength
             THEN /\ sb_last.isNil
                  /\ sb_buffer = sb_last.before
             ELSE /\ ~sb_last.isNil
                  /\ Len(sb_buffer) = maxLength
                  /\ sb_last.data \o sb_buffer = sb_last.before
    /\ sb_last.op = "FlushAll"
          => /\ sb_buffer = <<>>
             /\ sb_last.data = sb_last.before

\* Flush has returned bytes for the second time, of a buffer that held
\* more than maxLength bytes of different values
C36_Witness ==
    /\ sb_last.op = "Flush"
    /\ ~sb_last.isNil
    /\ Len(sb_returned) > Len(sb_last.data)
    /\ Len(sb_buffer) = maxLength
    /\ \E i, j \in 1..Len(sb_written) : sb_written[i] # sb_written[j]


C38_DetectCallsDoNotRace ==
    \A t, u \in RaceTasks :
        t # u =>
          /\ ~(rt_tasks[t].pc = "sorting" /\ rt_tasks[u].pc = "sorting")
          /\ ~(rt_tasks[t].pc = "setflag" /\ rt_tasks[u].pc = "setflag")
          /\ ~(rt_tasks[t].pc = "loop" /\ rt_tasks[u].pc = "sorting")

=============================================================================
